---- MODULE Spec2Model ----
(***************************************************************************)
(* Skin tone analyzer: the colour analyzer (core/color_analyzer.py) and    *)
(* the skin tone modifier (core/skin_tone_modifier.py).                    *)
(*                                                                         *)
(* An image is one row of Width RGB pixels (a function 1..Width -> RGB).   *)
(* On a one-row image the 5x5 elliptical structuring element acts through  *)
(* its centre row (five ones) and a Gaussian kernel acts along the row     *)
(* only, since every reflected row equals the row itself.                  *)
(* Real numbers are fixed-point integers: lightness in tenths of L*,       *)
(* ratios are compared by cross-multiplication.                            *)
(***************************************************************************)
EXTENDS Integers, Sequences, FiniteSets, TLC

VARIABLES image, op, arg, result, lab, calls, app

vars == <<image, op, arg, result, lab, calls, app>>

(* ------------------------------ bounds -------------------------------- *)

Width == 8
MaxRuns == 3

(* ------------------------------ helpers ------------------------------- *)

Min2(a, b) == IF a <= b THEN a ELSE b
Max2(a, b) == IF a >= b THEN a ELSE b
Abs(a) == IF a < 0 THEN -a ELSE a

\* np.clip(x, lo, hi)
Clip(x, lo, hi) == Max2(lo, Min2(hi, x))

\* round to nearest of num/den, den > 0
RoundDiv(num, den) == (2 * num + den) \div (2 * den)

\* the right shift of the fixed-point conversions: (x + 2^(n-1)) >> n
Descale(x, n) == (x + 2 ^ (n - 1)) \div (2 ^ n)

Pos == 1 .. Width

\* the row of Width values f[1], ..., f[Width] as an array
Row(f) == SubSeq(f, 1, Width)

(* -------------------------- input pixels ------------------------------ *)

LightSkin == <<200, 150, 120>>
DarkSkin == <<120, 80, 60>>
Blue == <<40, 80, 200>>

Palette == {LightSkin, DarkSkin, Blue}

\* the number of places where the colour changes along the row
Changes(img) == Cardinality({x \in 1 .. (Width - 1) : img[x] # img[x + 1]})

Images == {img \in [Pos -> Palette] : Changes(img) < MaxRuns}

(* ---------------------- colour space conversions ---------------------- *)

\* cv2.cvtColor(image, cv2.COLOR_RGB2HSV) on 8-bit pixels: H in 0..180,
\* S and V in 0..255, by the 12-bit fixed-point division tables.
RGB2HSV(p) ==
    LET r == p[1]
        g == p[2]
        b == p[3]
        v == Max2(r, Max2(g, b))
        vmin == Min2(r, Min2(g, b))
        diff == v - vmin
        sdiv == IF v = 0 THEN 0 ELSE RoundDiv(255 * 4096, v)
        hdiv == IF diff = 0 THEN 0 ELSE RoundDiv(180 * 4096, 6 * diff)
        s == Descale(diff * sdiv, 12)
        h0 == IF v = r THEN g - b
              ELSE IF v = g THEN b - r + 2 * diff
              ELSE r - g + 4 * diff
        h1 == Descale(h0 * hdiv, 12)
        h == IF h1 < 0 THEN h1 + 180 ELSE h1
    IN  <<h, s, v>>

\* cv2.cvtColor(image, cv2.COLOR_RGB2YCrCb) on 8-bit pixels, 14-bit fixed point
RGB2YCrCb(p) ==
    LET r == p[1]
        g == p[2]
        b == p[3]
        y == Descale(r * 4899 + g * 9617 + b * 1868, 14)
        cr == Descale((r - y) * 11682 + 128 * 16384, 14)
        cb == Descale((b - y) * 9241 + 128 * 16384, 14)
    IN  <<Clip(y, 0, 255), Clip(cr, 0, 255), Clip(cb, 0, 255)>>

\* cv2.cvtColor(hsv, cv2.COLOR_HSV2RGB) on 8-bit pixels
HSV2RGB(q) ==
    LET h == q[1] % 180
        s == q[2]
        v == q[3]
        sector == h \div 30
        hf == h - 30 * sector
        den == 255 * 30
        t1 == RoundDiv(v * (255 - s), 255)
        t2 == RoundDiv(v * (den - s * hf), den)
        t3 == RoundDiv(v * (den - s * (30 - hf)), den)
    IN  IF s = 0 THEN <<v, v, v>>
        ELSE CASE sector = 0 -> <<v, t3, t1>>
               [] sector = 1 -> <<t2, v, t1>>
               [] sector = 2 -> <<t1, v, t3>>
               [] sector = 3 -> <<t1, t2, v>>
               [] sector = 4 -> <<t3, t1, v>>
               [] OTHER -> <<v, t1, t2>>

(* ----------------------------- skin mask ------------------------------ *)

\* InRangeHSV with the bounds themselves left out
InRangeHSV_ExclusiveBounds(p) ==
    LET q == RGB2HSV(p)
    IN  /\ 0 < q[1] /\ q[1] < 20
        /\ 20 < q[2] /\ q[2] < 255
        /\ 70 < q[3] /\ q[3] < 255

\* cv2.inRange(hsv, [0, 20, 70], [20, 255, 255])
InRangeHSV(p) ==
    LET q == RGB2HSV(p)
    IN  /\ 0 <= q[1] /\ q[1] <= 20
        /\ 20 <= q[2] /\ q[2] <= 255
        /\ 70 <= q[3] /\ q[3] <= 255

\* cv2.inRange(ycrcb, [0, 135, 85], [255, 180, 135])
InRangeYCrCb(p) ==
    LET q == RGB2YCrCb(p)
    IN  /\ 0 <= q[1] /\ q[1] <= 255
        /\ 135 <= q[2] /\ q[2] <= 180
        /\ 85 <= q[3] /\ q[3] <= 135

\* cv2.bitwise_and(mask_hsv, mask_ycrcb)
RawMask(img) ==
    Row([x \in Pos |-> IF InRangeHSV(img[x]) /\ InRangeYCrCb(img[x]) THEN 255 ELSE 0])

\* the columns the centre row of the 5x5 ellipse covers around x, inside the image
Window(x) == {y \in Pos : Abs(y - x) <= 2}

SetMin(S) == CHOOSE a \in S : \A b \in S : a <= b
SetMax(S) == CHOOSE a \in S : \A b \in S : a >= b

\* erosion and dilation; pixels outside the image do not take part
Erode(m) == Row([x \in Pos |-> SetMin({m[y] : y \in Window(x)})])
Dilate(m) == Row([x \in Pos |-> SetMax({m[y] : y \in Window(x)})])

\* cv2.morphologyEx(mask, cv2.MORPH_OPEN, kernel), then cv2.MORPH_CLOSE
MorphOpen(m) == Dilate(Erode(m))
MorphClose(m) == Erode(Dilate(m))

\* BORDER_REFLECT_101: the index of column x read from outside the image
Reflect(x) == IF x < 1 THEN 2 - x ELSE IF x > Width THEN 2 * Width - x ELSE x

\* Blur3 over the columns that have both neighbours inside the image only
Blur3_Valid(m) ==
    SubSeq([x \in 1 .. (Width - 2) |-> RoundDiv(m[x] + 2 * m[x + 1] + m[x + 2], 4)],
           1, Width - 2)

\* cv2.GaussianBlur(mask, (3, 3), 0): kernel 1 2 1 over 4
Blur3(m) ==
    Row([x \in Pos |-> RoundDiv(m[Reflect(x - 1)] + 2 * m[x] + m[Reflect(x + 1)], 4)])

\* cv2.GaussianBlur(mask, (5, 5), 0): kernel 1 4 6 4 1 over 16
Blur5(m) ==
    Row([x \in Pos |-> RoundDiv(m[Reflect(x - 2)] + 4 * m[Reflect(x - 1)] + 6 * m[x]
                                + 4 * m[Reflect(x + 1)] + m[Reflect(x + 2)], 16)])

\* ColorAnalyzer._detect_skin_regions
detect_skin_regions(img) == Blur3(MorphClose(MorphOpen(RawMask(img))))

\* SkinToneModifier._detect_skin_mask
detect_skin_mask(img) == Blur5(MorphClose(MorphOpen(RawMask(img))))

\* np.sum(skin_mask) == 0
MaskIsZero(m) == \A x \in Pos : m[x] = 0

(* ------------------------- 8-bit CIE L*a*b* --------------------------- *)

\* cv2.cvtColor(image, cv2.COLOR_RGB2LAB) on 8-bit pixels: L is L* x 255/100
\* (0..255), a and b are offset by 128. The values of the input colours.
RGB2LAB(p) ==
    CASE p = LightSkin -> <<169, 143, 151>>
      [] p = DarkSkin -> <<97, 142, 147>>
      [] p = Blue -> <<98, 158, 62>>

\* cv2.cvtColor(lab, cv2.COLOR_LAB2RGB) on 8-bit pixels, at the L*a*b* values
\* the lightness adjustment hands to it.
LAB2RGB(q) ==
    CASE q = <<48, 142, 147>> -> <<71, 37, 19>>
      [] q = <<49, 158, 62>> -> <<0, 38, 147>>
      [] q = <<77, 142, 147>> -> <<100, 62, 42>>
      [] q = <<78, 158, 62>> -> <<0, 62, 178>>
      [] q = <<82, 142, 147>> -> <<105, 67, 46>>
      [] q = <<83, 158, 62>> -> <<0, 67, 183>>
      [] q = <<84, 143, 151>> -> <<109, 68, 42>>
      [] q = <<97, 142, 147>> -> <<120, 80, 59>>
      [] q = <<98, 158, 62>> -> <<39, 80, 200>>
      [] q = <<100, 142, 147>> -> <<123, 83, 62>>
      [] q = <<100, 143, 151>> -> <<126, 82, 56>>
      [] q = <<100, 158, 62>> -> <<43, 82, 202>>
      [] q = <<169, 143, 151>> -> <<201, 150, 121>>

(* --------------------------- tone modifier ---------------------------- *)

\* no image: the value of an image that was not produced
NoImage == <<>>

\* return result
Ok(img) == [status |-> "ok", image |-> img]

\* raise ValueError(f"<what> failed: {str(e)}") of an except clause
Failed(what, cause) == [status |-> "error", image |-> NoImage, type |-> "ValueError",
                        what |-> what, cause |-> cause]

\* AdjustedL scaling the lightness of every pixel, the mask ignored
AdjustedL_Unmasked(l, w, adjustment) ==
    Clip((l * (100 + adjustment)) \div 100, 0, 100)

\* lab[:, :, 0] = np.where(skin_mask > 0, np.clip(L * factor, 0, 100), L), then
\* lab.astype(np.uint8): adjustment is in percent, the product is truncated
AdjustedL(l, w, adjustment) ==
    IF w > 0 THEN Clip((l * (100 + adjustment)) \div 100, 0, 100) ELSE l

\* the L*a*b* image of adjust_lightness before the conversion back to RGB
AdjustedLab(img, mask, adjustment) ==
    Row([x \in Pos |-> <<AdjustedL(RGB2LAB(img[x])[1], mask[x], adjustment),
                         RGB2LAB(img[x])[2], RGB2LAB(img[x])[3]>>])

\* result = cv2.cvtColor(lab, cv2.COLOR_LAB2RGB)
LabToRgb(lab_image) == Row([x \in Pos |-> LAB2RGB(lab_image[x])])

\* LightnessOn without the early return on an empty mask
LightnessOn_NoEarlyReturn(img, skin_mask, adjustment) ==
    Ok(LabToRgb(AdjustedLab(img, skin_mask, adjustment)))

\* adjust_lightness after the mask is computed
LightnessOn(img, skin_mask, adjustment) ==
    IF MaskIsZero(skin_mask) THEN Ok(img)
    ELSE Ok(LabToRgb(AdjustedLab(img, skin_mask, adjustment)))

\* SkinToneModifier.adjust_lightness
adjust_lightness(img, adjustment) == LightnessOn(img, detect_skin_mask(img), adjustment)

\* red_adjustment with the factors of the two signs of adjustment exchanged
RedAdjustment_Swapped(adjustment) ==
    IF adjustment > 0 THEN 1000 + 2 * adjustment ELSE 1000 + 3 * adjustment

\* red_adjustment and blue_adjustment, in thousandths
RedAdjustment(adjustment) ==
    IF adjustment > 0 THEN 1000 + 3 * adjustment ELSE 1000 + 2 * adjustment

BlueAdjustment(adjustment) ==
    IF adjustment > 0 THEN 1000 - 2 * adjustment ELSE 1000 - 3 * adjustment

\* The products are taken in float32 and truncated by astype(np.uint8). These
\* are the <<value, factor in thousandths>> whose exact product is a whole number
\* and whose float32 product falls just below it (1.06 is 1.05999994 in float32),
\* for the factors of the adjustments callers pass.
Float32Short ==
    {<<50, 1060>>, <<100, 1060>>, <<150, 1060>>, <<200, 1060>>, <<200, 1045>>, <<250, 1012>>,
     <<60, 1050>>, <<100, 1050>>, <<120, 1050>>, <<180, 1050>>, <<200, 1050>>,
     <<220, 1050>>, <<240, 1050>>}

\* the float32 product value * factor, truncated to a whole number
Float32Product(value, factor) ==
    (value * factor) \div 1000 - (IF <<value, factor>> \in Float32Short THEN 1 ELSE 0)

\* np.where(skin_mask > 0, np.clip(channel * factor, 0, 255), channel), then astype(np.uint8)
ScaledChannel(c, w, factor) ==
    IF w > 0 THEN Clip(Float32Product(c, factor), 0, 255) ELSE c

\* the pixel p, of mask value w, after the red and blue channels are scaled
WarmPixel(p, w, adjustment) ==
    <<ScaledChannel(p[1], w, RedAdjustment(adjustment)),
      p[2],
      ScaledChannel(p[3], w, BlueAdjustment(adjustment))>>

\* adjust_warmth after the mask is computed
WarmthOn(img, skin_mask, adjustment) ==
    IF MaskIsZero(skin_mask) THEN Ok(img)
    ELSE Ok(Row([x \in Pos |-> WarmPixel(img[x], skin_mask[x], adjustment)]))

\* SkinToneModifier.adjust_warmth
adjust_warmth(img, adjustment) == WarmthOn(img, detect_skin_mask(img), adjustment)

\* hsv[:, :, 1] = np.where(skin_mask > 0, np.clip(S * factor, 0, 255), S), then astype(np.uint8)
AdjustedS(s, w, adjustment) ==
    IF w > 0 THEN Clip(Float32Product(s, 10 * (100 + adjustment)), 0, 255) ELSE s

\* the pixel after the saturation of its HSV value is adjusted
SaturatedPixel(p, w, adjustment) ==
    HSV2RGB(<<RGB2HSV(p)[1], AdjustedS(RGB2HSV(p)[2], w, adjustment), RGB2HSV(p)[3]>>)

\* adjust_saturation after the mask is computed
SaturationOn(img, skin_mask, adjustment) ==
    IF MaskIsZero(skin_mask) THEN Ok(img)
    ELSE Ok(Row([x \in Pos |-> SaturatedPixel(img[x], skin_mask[x], adjustment)]))

\* SkinToneModifier.adjust_saturation
adjust_saturation(img, adjustment) == SaturationOn(img, detect_skin_mask(img), adjustment)

\* the image a sub-adjustment returns
ImageOf(r) == r.image

\* the adjustments table of change_skin_tone
Tones == {"lighter", "darker", "warmer", "cooler"}

Preset(target_tone) ==
    CASE target_tone = "lighter" -> [lightness |-> 15, warmth |-> 0, saturation |-> -5]
      [] target_tone = "darker" -> [lightness |-> -15, warmth |-> 5, saturation |-> 5]
      [] target_tone = "warmer" -> [lightness |-> 0, warmth |-> 20, saturation |-> 10]
      [] target_tone = "cooler" -> [lightness |-> 0, warmth |-> -20, saturation |-> -5]

\* if params['lightness'] != 0: result = self.adjust_lightness(result, params['lightness'])
ApplyLightness(img, value) == IF value # 0 THEN ImageOf(adjust_lightness(img, value)) ELSE img

\* if params['warmth'] != 0: result = self.adjust_warmth(result, params['warmth'])
ApplyWarmth(img, value) == IF value # 0 THEN ImageOf(adjust_warmth(img, value)) ELSE img

\* if params['saturation'] != 0: result = self.adjust_saturation(result, params['saturation'])
ApplySaturation(img, value) == IF value # 0 THEN ImageOf(adjust_saturation(img, value)) ELSE img

\* a call of method name on image img with the adjustment value, appended to the
\* calls made so far unless the preset value is 0
Invoked(made, name, img, value) ==
    IF value # 0 THEN Append(made, [name |-> name, value |-> value, input |-> img]) ELSE made

\* SubAdjustmentsOn with the saturation adjusted before the warmth
SubAdjustmentsOn_SaturationFirst(img, params) ==
    Invoked(Invoked(Invoked(<<>>, "adjust_lightness", img, params.lightness),
                    "adjust_saturation", ApplyLightness(img, params.lightness),
                    params.saturation),
            "adjust_warmth",
            ApplySaturation(ApplyLightness(img, params.lightness), params.saturation),
            params.warmth)

\* the adjust_* calls of change_skin_tone on a known tone, in the order made
SubAdjustmentsOn(img, params) ==
    Invoked(Invoked(Invoked(<<>>, "adjust_lightness", img, params.lightness),
                    "adjust_warmth", ApplyLightness(img, params.lightness), params.warmth),
            "adjust_saturation",
            ApplyWarmth(ApplyLightness(img, params.lightness), params.warmth),
            params.saturation)

\* the adjust_* calls of change_skin_tone: none when the tone is unknown
SubAdjustments(img, target_tone) ==
    IF target_tone \notin Tones THEN <<>> ELSE SubAdjustmentsOn(img, Preset(target_tone))

\* change_skin_tone accepting an unknown tone: the image is returned as it came
change_skin_tone_Unchecked(img, target_tone) ==
    IF target_tone \notin Tones
    THEN Ok(img)
    ELSE Ok(ApplySaturation(ApplyWarmth(ApplyLightness(img, Preset(target_tone).lightness),
                                        Preset(target_tone).warmth),
                            Preset(target_tone).saturation))

\* SkinToneModifier.change_skin_tone
change_skin_tone(img, target_tone) ==
    IF target_tone \notin Tones
    THEN Failed("Skin tone change", "Unknown target tone")
    ELSE Ok(ApplySaturation(ApplyWarmth(ApplyLightness(img, Preset(target_tone).lightness),
                                        Preset(target_tone).warmth),
                            Preset(target_tone).saturation))

\* cv2.GaussianBlur(skin_mask, (feather_radius * 2 + 1, feather_radius * 2 + 1), 0)
FeatherBlur(m, feather_radius) == IF feather_radius = 1 THEN Blur3(m) ELSE Blur5(m)

\* The blend is computed in float32: weight / 255, 1 - weight / 255, the two
\* products and their sum are each rounded. These are the <<original, adjusted,
\* weight>>, among the values the operations meet, whose exact blend is a whole
\* number and whose float32 blend falls just below it: 200 * (1 - 65 / 255) +
\* 200 * (65 / 255) gives 199.99998.
BlendShort == {<<200, 200, 65>>, <<200, 200, 69>>, <<200, 200, 83>>}

\* result * (1 - feathered_mask) + adjusted * feathered_mask with
\* feathered_mask = weight / 255, then astype(np.uint8)
Blend(original, adjusted, weight) ==
    (original * (255 - weight) + adjusted * weight) \div 255
        - (IF <<original, adjusted, weight>> \in BlendShort THEN 1 ELSE 0)

BlendImages(img, adjusted, feathered_mask) ==
    Row([x \in Pos |->
        <<Blend(img[x][1], adjusted[x][1], feathered_mask[x]),
          Blend(img[x][2], adjusted[x][2], feathered_mask[x]),
          Blend(img[x][3], adjusted[x][3], feathered_mask[x])>>])

AdjustmentTypes == {"lightness", "warmth", "saturation"}

\* the adjusted image of apply_gradual_adjustment
Adjusted(img, adjustment_type, intensity) ==
    CASE adjustment_type = "lightness" -> ImageOf(adjust_lightness(img, intensity))
      [] adjustment_type = "warmth" -> ImageOf(adjust_warmth(img, intensity))
      [] adjustment_type = "saturation" -> ImageOf(adjust_saturation(img, intensity))

\* apply_gradual_adjustment after the mask is computed
GradualOn(img, skin_mask, adjustment_type, intensity, feather_radius) ==
    IF MaskIsZero(skin_mask) THEN Ok(img)
    ELSE IF adjustment_type \notin AdjustmentTypes THEN Ok(img)
    ELSE Ok(BlendImages(img, Adjusted(img, adjustment_type, intensity),
                        FeatherBlur(skin_mask, feather_radius)))

\* SkinToneModifier.apply_gradual_adjustment
apply_gradual_adjustment(img, adjustment_type, intensity, feather_radius) ==
    GradualOn(img, detect_skin_mask(img), adjustment_type, intensity, feather_radius)

\* bilateralFilter(image, 15, 80, 80): the weight of column offset dx is the sum of
\* exp(-(dx^2 + dy^2) / (2 * 80^2)) over the rows dy of the radius-7 disc, in tenths
SpaceWeight(dx) ==
    CASE dx = 0 -> 150
      [] dx \in 1 .. 3 -> 130
      [] dx = 4 -> 110
      [] dx = 5 -> 90
      [] dx = 6 -> 70
      [] OTHER -> 10

\* |dR| + |dG| + |dB|
ColorDistance(p, q) == Abs(p[1] - q[1]) + Abs(p[2] - q[2]) + Abs(p[3] - q[3])

\* exp(-d^2 / (2 * 80^2)) in thousandths, at the distances between input colours
ColorWeight(d) ==
    CASE d = 0 -> 1000
      [] d = 210 -> 32
      [] d = 220 -> 23
      [] d = 310 -> 1

BilateralWeight(img, x, dx) ==
    SpaceWeight(Abs(dx)) * ColorWeight(ColorDistance(img[Reflect(x + dx)], img[x]))

RECURSIVE WeightSum(_, _, _)
\* the sum of the weights of the offsets dx..7 around x
WeightSum(img, x, dx) ==
    IF dx > 7 THEN 0 ELSE BilateralWeight(img, x, dx) + WeightSum(img, x, dx + 1)

RECURSIVE WeightedSum(_, _, _, _)
\* the weighted sum of channel c over the offsets dx..7 around x
WeightedSum(img, x, c, dx) ==
    IF dx > 7 THEN 0
    ELSE BilateralWeight(img, x, dx) * img[Reflect(x + dx)][c] + WeightedSum(img, x, c, dx + 1)

SmoothedChannel(img, x, c) == RoundDiv(WeightedSum(img, x, c, -7), WeightSum(img, x, -7))

\* cv2.bilateralFilter(image, 15, 80, 80)
bilateralFilter(img) ==
    Row([x \in Pos |-> <<SmoothedChannel(img, x, 1), SmoothedChannel(img, x, 2),
                         SmoothedChannel(img, x, 3)>>])

\* TextureBlend at full strength, whatever the smoothing asked for
TextureBlend_FullStrength(original, smoothed, weight, smoothing) ==
    (original * (255 - weight) + smoothed * weight) \div 255

\* result * (1 - skin_mask_norm) + smoothed * skin_mask_norm with
\* skin_mask_norm = weight / 255 * smoothing, smoothing in percent; then astype(np.uint8)
TextureBlend(original, smoothed, weight, smoothing) ==
    (original * (25500 - weight * smoothing) + smoothed * weight * smoothing) \div 25500

\* enhance_skin_texture after the mask and the smoothed image are computed
TextureOn(img, skin_mask, smoothed, smoothing) ==
    IF MaskIsZero(skin_mask) THEN Ok(img)
    ELSE Ok(Row([x \in Pos |->
                <<TextureBlend(img[x][1], smoothed[x][1], skin_mask[x], smoothing),
                  TextureBlend(img[x][2], smoothed[x][2], skin_mask[x], smoothing),
                  TextureBlend(img[x][3], smoothed[x][3], skin_mask[x], smoothing)>>]))

\* SkinToneModifier.enhance_skin_texture
enhance_skin_texture(img, smoothing) ==
    TextureOn(img, detect_skin_mask(img), bilateralFilter(img), smoothing)

(* --------------------------- colour analyzer -------------------------- *)

\* A mean colour is the channel sums over n pixels: channel c is sum[c] / n.
\* Lightness is in tenths of L*, hues in hundredths of a degree, saturation and
\* value in thousandths, confidence in tenths.

\* the columns with mask > 0
SkinPositions(mask) == {x \in Pos : mask[x] > 0}

RECURSIVE ChannelSum(_, _, _, _)
\* the sum of channel c over the columns 1..x with mask > 0
ChannelSum(img, mask, c, x) ==
    IF x = 0 THEN 0
    ELSE (IF mask[x] > 0 THEN img[x][c] ELSE 0) + ChannelSum(img, mask, c, x - 1)

\* skin_pixels = image[skin_mask > 0]; np.mean(skin_pixels, axis=0)
MeanColor(img, mask) ==
    [sum |-> <<ChannelSum(img, mask, 1, Width), ChannelSum(img, mask, 2, Width),
               ChannelSum(img, mask, 3, Width)>>,
     n |-> Cardinality(SkinPositions(mask))]

\* the sRGB expansion of rgb2lab at the channel values 0..255, in 1/100000
LinTab ==
    <<
       0, 30, 61, 91, 121, 152, 182, 212, 243, 273, 304, 335, 368, 402, 439, 478,
       518, 561, 605, 651, 700, 750, 802, 857, 913, 972, 1033, 1096, 1161, 1229, 1298, 1370,
       1444, 1521, 1600, 1681, 1764, 1850, 1938, 2029, 2122, 2217, 2315, 2416, 2519, 2624, 2732, 2843,
       2956, 3071, 3190, 3310, 3434, 3560, 3689, 3820, 3955, 4092, 4231, 4374, 4519, 4667, 4817, 4971,
       5127, 5286, 5448, 5613, 5781, 5951, 6125, 6301, 6480, 6663, 6848, 7036, 7227, 7421, 7619, 7819,
       8022, 8228, 8438, 8650, 8866, 9084, 9306, 9531, 9759, 9990, 10224, 10462, 10702, 10946, 11193, 11444,
       11697, 11954, 12214, 12477, 12744, 13014, 13287, 13563, 13843, 14126, 14413, 14703, 14996, 15293, 15593, 15896,
       16203, 16513, 16827, 17144, 17465, 17789, 18116, 18447, 18782, 19120, 19462, 19807, 20156, 20508, 20864, 21223,
       21586, 21953, 22323, 22697, 23074, 23455, 23840, 24228, 24620, 25016, 25415, 25818, 26225, 26636, 27050, 27468,
       27889, 28315, 28744, 29177, 29614, 30054, 30499, 30947, 31399, 31855, 32314, 32778, 33245, 33716, 34191, 34670,
       35153, 35640, 36131, 36625, 37124, 37626, 38133, 38643, 39157, 39676, 40198, 40724, 41254, 41789, 42327, 42869,
       43415, 43966, 44520, 45079, 45641, 46208, 46778, 47353, 47932, 48515, 49102, 49693, 50289, 50888, 51492, 52100,
       52712, 53328, 53948, 54572, 55201, 55834, 56471, 57112, 57758, 58408, 59062, 59720, 60383, 61050, 61721, 62396,
       63076, 63760, 64448, 65141, 65837, 66539, 67244, 67954, 68669, 69387, 70110, 70838, 71569, 72306, 73046, 73791,
       74540, 75294, 76052, 76815, 77582, 78354, 79130, 79910, 80695, 81485, 82279, 83077, 83880, 84687, 85499, 86316,
       87137, 87962, 88792, 89627, 90466, 91310, 92158, 93011, 93869, 94731, 95597, 96469, 97345, 98225, 99110, 100000
    >>

\* the expansion of channel value sum / n, between the two nearest table entries
Linear(sum, n) ==
    IF sum \div n >= 255 THEN LinTab[256]
    ELSE LinTab[(sum \div n) + 1]
         + ((LinTab[(sum \div n) + 2] - LinTab[(sum \div n) + 1]) * (sum % n)) \div n

\* the luminance Y of rgb2lab, in 1/1000000000
Luminance(avg) ==
    2127 * Linear(avg.sum[1], avg.n) + 7152 * Linear(avg.sum[2], avg.n)
    + 722 * Linear(avg.sum[3], avg.n)

RECURSIVE CubeRootIn(_, _, _)
\* the largest k in lo..hi with k^3 <= y
CubeRootIn(y, lo, hi) ==
    IF lo >= hi THEN lo
    ELSE IF ((lo + hi + 1) \div 2) * ((lo + hi + 1) \div 2) * ((lo + hi + 1) \div 2) <= y
         THEN CubeRootIn(y, (lo + hi + 1) \div 2, hi)
         ELSE CubeRootIn(y, lo, ((lo + hi + 1) \div 2) - 1)

\* lab[0, 0, 0] of color.rgb2lab, in tenths
LabLightness(avg) ==
    IF Luminance(avg) > 8856000
    THEN RoundDiv(116 * CubeRootIn(Luminance(avg), 0, 1000) - 16000, 100)
    ELSE RoundDiv((Luminance(avg) \div 1000) * 9033, 1000000)

\* FallbackLightness without the division by 255
FallbackLightness_Unscaled(avg) ==
    RoundDiv((avg.sum[1] + avg.sum[2] + avg.sum[3]) * 1000, 3 * avg.n)

\* the fallback of _calculate_lightness: np.mean(rgb_color) / 255.0 * 100
FallbackLightness(avg) ==
    RoundDiv((avg.sum[1] + avg.sum[2] + avg.sum[3]) * 1000, 3 * avg.n * 255)

\* ColorAnalyzer._calculate_lightness; lab_fails: color.rgb2lab raises
calculate_lightness(avg, lab_fails) ==
    IF lab_fails THEN FallbackLightness(avg)
    ELSE Max2(0, Min2(1000, LabLightness(avg)))

\* ColorAnalyzer.skin_tone_categories, in the order of the dictionary
skin_tone_categories ==
    << [range |-> <<0, 25>>, name |-> "Very Light"],
       [range |-> <<25, 40>>, name |-> "Light"],
       [range |-> <<40, 55>>, name |-> "Light Medium"],
       [range |-> <<55, 70>>, name |-> "Medium"],
       [range |-> <<70, 85>>, name |-> "Medium Dark"],
       [range |-> <<85, 100>>, name |-> "Dark"] >>

\* InCategory with the range open below and closed above
InCategory_ClosedAbove(info, lightness) ==
    info.range[1] * 10 < lightness /\ lightness <= info.range[2] * 10

\* if min_val <= lightness < max_val, lightness in tenths
InCategory(info, lightness) ==
    info.range[1] * 10 <= lightness /\ lightness < info.range[2] * 10

\* FallbackCategory without its two range tests
FallbackCategory_AlwaysMedium(lightness) == "Medium"

\* the fallback of _classify_skin_tone_category
FallbackCategory(lightness) ==
    IF lightness < 250 THEN "Very Light"
    ELSE IF lightness >= 850 THEN "Dark"
    ELSE "Medium"

RECURSIVE ClassifyFrom(_, _)
\* the loop over the categories from index i on
ClassifyFrom(lightness, i) ==
    IF i > Len(skin_tone_categories) THEN FallbackCategory(lightness)
    ELSE IF InCategory(skin_tone_categories[i], lightness) THEN skin_tone_categories[i].name
    ELSE ClassifyFrom(lightness, i + 1)

\* ColorAnalyzer._classify_skin_tone_category
classify_skin_tone_category(lightness) == ClassifyFrom(lightness, 1)

\* red_blue_diff = red_ratio - blue_ratio is a difference of two double-precision
\* quotients by 255.0. Where the means differ by exactly 12.75 levels the rounded
\* difference is 0.05 +- a few units in the last place; away from that the
\* rounding changes no comparison. The pairs <<mean red, mean blue>>, in
\* hundredths, of the inputs whose rounded difference lies beyond the threshold:
\* 65.75 / 255.0 - 53.0 / 255.0 = 0.05000000000000002 and so on.
RoundedAbove == {<<5325, 4050>>, <<6575, 5300>>, <<25175, 23900>>}
RoundedBelow == {<<5325, 6600>>, <<4025, 5300>>, <<22625, 23900>>}

\* a warm threshold of 0.2 in place of 0.05
DiffAbove_Fifth(avg) == (avg.sum[1] - avg.sum[3]) * 5 > 255 * avg.n

\* red_blue_diff > 0.05 and red_blue_diff < -0.05 as the doubles compare
DiffAbove(avg) ==
    \/ (avg.sum[1] - avg.sum[3]) * 20 > 255 * avg.n
    \/ /\ (avg.sum[1] - avg.sum[3]) * 20 = 255 * avg.n
       /\ avg.n = 100
       /\ <<avg.sum[1], avg.sum[3]>> \in RoundedAbove
DiffBelow(avg) ==
    \/ (avg.sum[1] - avg.sum[3]) * 20 < -(255 * avg.n)
    \/ /\ (avg.sum[1] - avg.sum[3]) * 20 = -(255 * avg.n)
       /\ avg.n = 100
       /\ <<avg.sum[1], avg.sum[3]>> \in RoundedBelow

\* ColorAnalyzer._determine_undertone
determine_undertone(avg, fails) ==
    IF fails THEN "Neutral"
    ELSE IF DiffAbove(avg) THEN "Warm"
    ELSE IF DiffBelow(avg) THEN "Cool"
    ELSE "Neutral"

\* r - b and b - r are differences of double-precision quotients by 255.0 as well.
\* The pairs <<mean red, mean blue>>, in hundredths, of the inputs whose means
\* differ by exactly 25.5 levels and whose rounded difference lies beyond 0.1:
\* 66.0 / 255.0 - 40.5 / 255.0 = 0.10000000000000003.
RoundedWarm == {<<6600, 4050>>}
RoundedCool == {<<4050, 6600>>}

\* (r - b) > 0.1 and (b - r) > 0.1 as the doubles compare
WarmerThan(avg) ==
    \/ (avg.sum[1] - avg.sum[3]) * 10 > 255 * avg.n
    \/ /\ (avg.sum[1] - avg.sum[3]) * 10 = 255 * avg.n
       /\ avg.n = 100
       /\ <<avg.sum[1], avg.sum[3]>> \in RoundedWarm
CoolerThan(avg) ==
    \/ (avg.sum[3] - avg.sum[1]) * 10 > 255 * avg.n
    \/ /\ (avg.sum[3] - avg.sum[1]) * 10 = 255 * avg.n
       /\ avg.n = 100
       /\ <<avg.sum[1], avg.sum[3]>> \in RoundedCool

\* ColorAnalyzer._calculate_color_temperature
calculate_color_temperature(avg, fails) ==
    IF fails THEN "Neutral"
    ELSE IF avg.sum[1] > avg.sum[3]
         THEN (IF WarmerThan(avg) THEN "Warm" ELSE "Neutral-Warm")
    ELSE IF avg.sum[3] > avg.sum[1]
         THEN (IF CoolerThan(avg) THEN "Cool" ELSE "Neutral-Cool")
    ELSE "Neutral"

\* hue * 360 of color.rgb2hsv, in hundredths of a degree
HueDegrees(avg) ==
    LET r == avg.sum[1]
        g == avg.sum[2]
        b == avg.sum[3]
        v == Max2(r, Max2(g, b))
        delta == v - Min2(r, Min2(g, b))
    IN  IF delta = 0 THEN 0
        ELSE IF v = r THEN RoundDiv(6000 * (g - b), delta) % 36000
        ELSE IF v = g THEN (12000 + RoundDiv(6000 * (b - r), delta)) % 36000
        ELSE (24000 + RoundDiv(6000 * (r - g), delta)) % 36000

\* saturation of color.rgb2hsv, in thousandths
HsvSaturation(avg) ==
    LET v == Max2(avg.sum[1], Max2(avg.sum[2], avg.sum[3]))
        delta == v - Min2(avg.sum[1], Min2(avg.sum[2], avg.sum[3]))
    IN  IF v = 0 THEN 0 ELSE RoundDiv(1000 * delta, v)

\* value of color.rgb2hsv, in thousandths
HsvValue(avg) ==
    RoundDiv(1000 * Max2(avg.sum[1], Max2(avg.sum[2], avg.sum[3])), 255 * avg.n)

\* hue_degrees = hue * 360 is a double. The mean colours, as channel sums over
\* n = 100 pixels, whose hue is 30 degrees and whose double falls just below it:
\* for the mean (180, 130, 80) hue_degrees = 29.99999999999999.
ShortOfThirty == {<<18000, 13000, 8000>>, <<7000, 5000, 3000>>}

\* analogous_hue2 = (hue_degrees - 30) % 360: a difference just below zero gains
\* 360 and rounds to 360.0
AnalogousBelow(avg) ==
    IF avg.n = 100 /\ avg.sum \in ShortOfThirty THEN 36000
    ELSE (HueDegrees(avg) - 3000) % 36000

\* ColorAnalyzer._get_color_harmony_info
get_color_harmony_info(avg, fails) ==
    IF fails
    THEN [base_hue |-> 0, complementary |-> 18000, triadic |-> <<12000, 24000>>,
          analogous |-> <<3000, 33000>>]
    ELSE [base_hue |-> HueDegrees(avg),
          complementary |-> (HueDegrees(avg) + 18000) % 36000,
          triadic |-> <<(HueDegrees(avg) + 12000) % 36000, (HueDegrees(avg) + 24000) % 36000>>,
          analogous |-> <<(HueDegrees(avg) + 3000) % 36000, AnalogousBelow(avg)>>,
          saturation |-> HsvSaturation(avg),
          value |-> HsvValue(avg)]

\* ConfidenceOf with the ratio thresholds excluded from the upper bucket
ConfidenceOf_ExclusiveBounds(skin_pixels, total_pixels) ==
    IF skin_pixels * 100 <= 5 * total_pixels THEN 3
    ELSE IF skin_pixels * 100 <= 15 * total_pixels THEN 6
    ELSE IF skin_pixels * 100 <= 40 * total_pixels THEN 9
    ELSE 8

\* the confidence of skin_pixels skin pixels among total_pixels, in tenths:
\* skin_ratio against 0.05 = 5/100, 0.15 = 15/100, 0.4 = 40/100
ConfidenceOf(skin_pixels, total_pixels) ==
    LET confidence == IF skin_pixels * 100 < 5 * total_pixels THEN 3
                      ELSE IF skin_pixels * 100 < 15 * total_pixels THEN 6
                      ELSE IF skin_pixels * 100 < 40 * total_pixels THEN 9
                      ELSE 8
    IN  Min2(10, Max2(0, confidence))

\* ColorAnalyzer._calculate_confidence
calculate_confidence(skin_pixels, total_pixels, fails) ==
    IF fails THEN 5 ELSE ConfidenceOf(skin_pixels, total_pixels)

(* ------------------------ dominant colours ---------------------------- *)

\* pixels: the multiset of pixel values handed to the clustering, as the number of
\* samples of each colour
Present(samples) == {c \in Palette : samples[c] > 0}

\* len(pixels_reshaped)
SampleCount(samples) == samples[LightSkin] + samples[DarkSkin] + samples[Blue]

\* kmeans.labels_ as the cluster index of each colour present. Equal pixels get equal
\* labels. With at least n_clusters distinct colours every cluster is populated;
\* with fewer, every colour has a cluster of its own and the other clusters are
\* empty. Which index a cluster gets depends on the seeding and is not fixed here.
Labelings(samples, n_colors) ==
    {f \in [Present(samples) -> 0 .. (n_colors - 1)] :
        IF Cardinality(Present(samples)) >= n_colors
        THEN \A j \in 0 .. (n_colors - 1) : \E c \in Present(samples) : f[c] = j
        ELSE \A c, e \in Present(samples) : f[c] = f[e] => c = e}

\* the samples of colour c that labels puts in cluster j
SamplesIn(labels, samples, j, c) ==
    IF c \in DOMAIN labels /\ labels[c] = j THEN samples[c] ELSE 0

\* np.bincount(labels)[j]
LabelCount(labels, samples, j) ==
    SamplesIn(labels, samples, j, LightSkin) + SamplesIn(labels, samples, j, DarkSkin)
        + SamplesIn(labels, samples, j, Blue)

\* len(np.bincount(labels)): the largest label used, plus one
BinCount(labels) == 1 + SetMax({labels[c] : c \in DOMAIN labels})

\* label_counts = np.bincount(labels); cluster j is at index j + 1
LabelCounts(labels, samples) ==
    SubSeq([i \in 1 .. BinCount(labels) |-> LabelCount(labels, samples, i - 1)],
           1, BinCount(labels))

\* channel ch of the mean of the samples of cluster j after astype(np.uint8)
ClusterMean(labels, samples, j, ch) ==
    (SamplesIn(labels, samples, j, LightSkin) * LightSkin[ch]
     + SamplesIn(labels, samples, j, DarkSkin) * DarkSkin[ch]
     + SamplesIn(labels, samples, j, Blue) * Blue[ch])
    \div LabelCount(labels, samples, j)

\* the rows of kmeans.cluster_centers_ that np.bincount reaches, an empty cluster
\* left open
PopulatedCenters(labels, samples) ==
    SubSeq([i \in 1 .. BinCount(labels) |->
               IF LabelCount(labels, samples, i - 1) = 0 THEN NoImage
               ELSE <<ClusterMean(labels, samples, i - 1, 1),
                      ClusterMean(labels, samples, i - 1, 2),
                      ClusterMean(labels, samples, i - 1, 3)>>],
           1, BinCount(labels))

\* SortedPlace without the reversal: the least populated cluster first
SortedPlace_Ascending(label_counts, i) ==
    1 + Cardinality({h \in 1 .. Len(label_counts) :
            \/ label_counts[h] < label_counts[i]
            \/ label_counts[h] = label_counts[i] /\ h < i})

\* the place of cluster i - 1 in np.argsort(label_counts)[::-1]: the ascending sort
\* keeps equal counts in index order, the reversal puts the higher index first
SortedPlace(label_counts, i) ==
    1 + Cardinality({h \in 1 .. Len(label_counts) :
            \/ label_counts[h] > label_counts[i]
            \/ label_counts[h] = label_counts[i] /\ h > i})

\* sorted_indices, plus one
SortedIndices(label_counts) ==
    SubSeq([place \in 1 .. Len(label_counts) |->
               CHOOSE i \in 1 .. Len(label_counts) : SortedPlace(label_counts, i) = place],
           1, Len(label_counts))

\* the clusters below the largest label that hold no sample, as indices
EmptyClusters(label_counts) == {i \in 1 .. Len(label_counts) : label_counts[i] = 0}

\* kmeans.cluster_centers_: an empty cluster keeps a data point
Center(centers, spare, i) == IF centers[i] = NoImage THEN spare[i] ELSE centers[i]

\* dominant_colors[sorted_indices].astype(np.uint8)
DominantColors(centers, spare, sorted_indices) ==
    SubSeq([place \in 1 .. Len(sorted_indices) |-> Center(centers, spare, sorted_indices[place])],
           1, Len(sorted_indices))

\* label_counts[sorted_indices]: the samples assigned to each returned centroid
Populations(label_counts, sorted_indices) ==
    SubSeq([place \in 1 .. Len(sorted_indices) |-> label_counts[sorted_indices[place]]],
           1, Len(sorted_indices))

\* return dominant_colors.astype(np.uint8), with the populations behind it
Clustered(dominant_colors, populations) ==
    [status |-> "ok", image |-> NoImage, value |-> dominant_colors,
     populations |-> populations]

\* the outcomes of the clustering with the given label counts and centres
ClusteredFrom(present, label_counts, centers, sorted_indices) ==
    {Clustered(DominantColors(centers, spare, sorted_indices),
               Populations(label_counts, sorted_indices)) :
        spare \in [EmptyClusters(label_counts) -> present]}

\* the outcomes of the clustering that assign the labels
ClusteredWith(labels, samples) ==
    UNION {ClusteredFrom(Present(samples), label_counts, PopulatedCenters(labels, samples),
                         SortedIndices(label_counts)) :
           label_counts \in {LabelCounts(labels, samples)}}

\* raise ValueError(f"Dominant color extraction failed: {str(e)}")
ClusteringFailed == Failed("Dominant color extraction", "KMeans")

\* ColorAnalyzer._get_dominant_colors: what it may return or raise. KMeans raises on
\* fewer samples than clusters (an empty pixel set included).
get_dominant_colors(samples, n_colors, fails) ==
    IF fails \/ SampleCount(samples) < n_colors THEN {ClusteringFailed}
    ELSE UNION {ClusteredWith(labels, samples) : labels \in Labelings(samples, n_colors)}

\* n_colors of the call self._get_dominant_colors(skin_pixels, n_colors=5)
NColors == 5

\* the steps of analyze_skin_tone that may raise
FailureSteps == {"detect", "cluster", "lightness", "undertone", "temperature", "harmony",
                 "confidence"}

\* return analysis_result
Analyzed(analysis) == [status |-> "ok", image |-> NoImage, analysis |-> analysis]

\* the number of skin pixels of each colour: skin_pixels = image[skin_mask > 0]
SkinSamples(img, mask) ==
    [c \in Palette |-> Cardinality({x \in SkinPositions(mask) : img[x] = c})]

\* the analysis_result dictionary of the mean colour avg
AnalysisRecord(avg, skin_pixels, fails) ==
    [category |-> classify_skin_tone_category(calculate_lightness(avg, fails = "lightness")),
     undertone |-> determine_undertone(avg, fails = "undertone"),
     lightness |-> calculate_lightness(avg, fails = "lightness"),
     temperature |-> calculate_color_temperature(avg, fails = "temperature"),
     average_color |-> avg,
     harmony_info |-> get_color_harmony_info(avg, fails = "harmony"),
     skin_pixel_count |-> skin_pixels,
     confidence |-> calculate_confidence(skin_pixels, Width, fails = "confidence")]

\* analysis_result with its 'dominant_colors' entry
WithDominantColors(record, dominant_colors) ==
    [dominant_colors |-> dominant_colors] @@ record

\* analyze_skin_tone from the clustering on: clustered is what _get_dominant_colors
\* returned or raised, record the entries computed after it
AnalyzeOn(clustered, record) ==
    IF clustered.status = "error"
    THEN Failed("Skin tone analysis", "Dominant color extraction failed")
    ELSE Analyzed(WithDominantColors(record, clustered.value))

\* no entry is computed when the clustering raises
NoRecord == <<>>

\* the entries computed after the clustering, when that returns
RecordOn(img, skin_mask, fails) ==
    IF fails = "cluster" \/ Cardinality(SkinPositions(skin_mask)) < NColors THEN NoRecord
    ELSE AnalysisRecord(MeanColor(img, skin_mask), Cardinality(SkinPositions(skin_mask)),
                        fails)

\* what self._get_dominant_colors(skin_pixels, n_colors=5) may return or raise when
\* the clustering itself does not fail
Clusterings(img, skin_mask) ==
    get_dominant_colors(SkinSamples(img, skin_mask), NColors, FALSE)

\* the outcomes of analyze_skin_tone on a computed mask, one for each outcome of
\* the clustering
AnalyzeAll(img, skin_mask, fails, clusterings) ==
    IF fails = "detect" THEN {Failed("Skin tone analysis", "Skin detection failed")}
    ELSE IF MaskIsZero(skin_mask)
    THEN {Failed("Skin tone analysis", "No skin regions detected in the image")}
    ELSE UNION {{AnalyzeOn(clustered, record) :
                    clustered \in IF fails = "cluster" THEN {ClusteringFailed}
                                  ELSE clusterings} :
                record \in {RecordOn(img, skin_mask, fails)}}

\* ColorAnalyzer.analyze_skin_tone; fails: the step that raises, or "none"
analyze_skin_tone(img, fails) ==
    UNION {AnalyzeAll(img, skin_mask, fails, Clusterings(img, skin_mask)) :
           skin_mask \in {detect_skin_regions(img)}}

(* ------------------------ recommendations ----------------------------- *)

\* The category and undertone names as the strings of characters that lower(),
\* replace() and the substring tests of the recommendation service work on.
Characters(text) ==
    CASE text = "Very Light" -> <<"V", "e", "r", "y", " ", "L", "i", "g", "h", "t">>
      [] text = "Light" -> <<"L", "i", "g", "h", "t">>
      [] text = "Light Medium" -> <<"L", "i", "g", "h", "t", " ", "M", "e", "d", "i", "u", "m">>
      [] text = "Medium" -> <<"M", "e", "d", "i", "u", "m">>
      [] text = "Medium Dark" -> <<"M", "e", "d", "i", "u", "m", " ", "D", "a", "r", "k">>
      [] text = "Dark" -> <<"D", "a", "r", "k">>
      [] text = "Tan" -> <<"T", "a", "n">>
      [] text = "Warm" -> <<"W", "a", "r", "m">>
      [] text = "Cool" -> <<"C", "o", "o", "l">>
      [] text = "Neutral" -> <<"N", "e", "u", "t", "r", "a", "l">>
      [] text = "Olive" -> <<"O", "l", "i", "v", "e">>
      [] text = "very_light" -> <<"v", "e", "r", "y", "_", "l", "i", "g", "h", "t">>
      [] text = "very light" -> <<"v", "e", "r", "y", " ", "l", "i", "g", "h", "t">>
      [] text = "light" -> <<"l", "i", "g", "h", "t">>
      [] text = "medium" -> <<"m", "e", "d", "i", "u", "m">>
      [] text = "dark" -> <<"d", "a", "r", "k">>
      [] text = "cool" -> <<"c", "o", "o", "l">>
      [] text = "warm" -> <<"w", "a", "r", "m">>

UpperCase == <<"A", "B", "C", "D", "E", "F", "G", "H", "I", "J", "K", "L", "M", "N", "O", "P", "Q", "R", "S", "T", "U", "V", "W", "X", "Y", "Z">>
LowerCase == <<"a", "b", "c", "d", "e", "f", "g", "h", "i", "j", "k", "l", "m", "n", "o", "p", "q", "r", "s", "t", "u", "v", "w", "x", "y", "z">>

\* str.lower()
Lower(chars) ==
    SubSeq([i \in 1 .. Len(chars) |->
                IF \E k \in 1 .. Len(UpperCase) : UpperCase[k] = chars[i]
                THEN LowerCase[CHOOSE k \in 1 .. Len(UpperCase) : UpperCase[k] = chars[i]]
                ELSE chars[i]], 1, Len(chars))

\* str.replace(old, new) for single characters
Replace(chars, old, new) ==
    SubSeq([i \in 1 .. Len(chars) |-> IF chars[i] = old THEN new ELSE chars[i]], 1, Len(chars))

\* sub in chars
Contains(sub, chars) ==
    \E i \in 1 .. (Len(chars) - Len(sub) + 1) : SubSeq(chars, i, i + Len(sub) - 1) = sub

\* ColorRecommendationService.color_palettes
color_palettes ==
    [very_light |->
        [cool |-> [best |-> <<"#E6F3FF", "#B3D9FF", "#80BFFF", "#4D9FFF", "#1A7FFF", "#0066E6", "#004DB3", "#003380">>,
                   avoid |-> <<"#FF6B35", "#FF8C42", "#FFA500", "#FFD700", "#FFFF00", "#ADFF2F", "#32CD32">>],
         warm |-> [best |-> <<"#FFF8E1", "#FFECB3", "#FFE082", "#FFD54F", "#FFCA28", "#FFC107", "#FFB300", "#FFA000">>,
                   avoid |-> <<"#8A2BE2", "#9932CC", "#BA55D3", "#DA70D6", "#EE82EE", "#DDA0DD", "#D8BFD8">>],
         neutral |-> [best |-> <<"#F5F5F5", "#E0E0E0", "#BDBDBD", "#9E9E9E", "#757575", "#616161", "#424242", "#212121">>,
                      avoid |-> <<"#FF1493", "#FF69B4", "#FFB6C1", "#FFC0CB", "#FFCCCB", "#F0E68C", "#BDB76B">>]],
     light |->
        [cool |-> [best |-> <<"#E1F5FE", "#B3E5FC", "#81D4FA", "#4FC3F7", "#29B6F6", "#03A9F4", "#039BE5", "#0288D1">>,
                   avoid |-> <<"#FF5722", "#FF7043", "#FF8A65", "#FFAB91", "#FFCCBC", "#FBE9E7", "#EFEBE9">>],
         warm |-> [best |-> <<"#FFF3E0", "#FFE0B2", "#FFCC80", "#FFB74D", "#FFA726", "#FF9800", "#FB8C00", "#F57C00">>,
                   avoid |-> <<"#3F51B5", "#5C6BC0", "#7986CB", "#9FA8DA", "#C5CAE9", "#E8EAF6", "#F3E5F5">>],
         neutral |-> [best |-> <<"#FAFAFA", "#F5F5F5", "#EEEEEE", "#E0E0E0", "#BDBDBD", "#9E9E9E", "#757575", "#616161">>,
                      avoid |-> <<"#E91E63", "#F06292", "#F48FB1", "#F8BBD9", "#FCE4EC", "#FFF0F5", "#FFFACD">>]],
     medium |->
        [cool |-> [best |-> <<"#B39DDB", "#9575CD", "#7E57C2", "#673AB7", "#5E35B1", "#512DA8", "#4527A0", "#311B92">>,
                   avoid |-> <<"#FF6F00", "#FF8F00", "#FFA000", "#FFB300", "#FFC107", "#FFD54F", "#FFE082">>],
         warm |-> [best |-> <<"#FFAB91", "#FF8A65", "#FF7043", "#FF5722", "#F4511E", "#E64A19", "#D84315", "#BF360C">>,
                   avoid |-> <<"#00BCD4", "#26C6DA", "#4DD0E1", "#80DEEA", "#B2EBF2", "#E0F2F1", "#F1F8E9">>],
         neutral |-> [best |-> <<"#D7CCC8", "#BCAAA4", "#A1887F", "#8D6E63", "#795548", "#6D4C41", "#5D4037", "#4E342E">>,
                      avoid |-> <<"#FF4081", "#FF80AB", "#FFAB91", "#FFCCBC", "#FBE9E7", "#EFEBE9", "#D7CCC8">>]],
     dark |->
        [cool |-> [best |-> <<"#7B1FA2", "#8E24AA", "#9C27B0", "#AB47BC", "#BA68C8", "#CE93D8", "#E1BEE7", "#F3E5F5">>,
                   avoid |-> <<"#FFEB3B", "#FFF176", "#FFF59D", "#FFF9C4", "#FFFDE7", "#F9FBE7", "#F1F8E9">>],
         warm |-> [best |-> <<"#BF360C", "#D84315", "#E64A19", "#F4511E", "#FF5722", "#FF7043", "#FF8A65", "#FFAB91">>,
                   avoid |-> <<"#E3F2FD", "#BBDEFB", "#90CAF9", "#64B5F6", "#42A5F5", "#2196F3", "#1E88E5">>],
         neutral |-> [best |-> <<"#3E2723", "#4E342E", "#5D4037", "#6D4C41", "#795548", "#8D6E63", "#A1887F", "#BCAAA4">>,
                      avoid |-> <<"#FFCDD2", "#F8BBD9", "#E1BEE7", "#D1C4E9", "#C5CAE9", "#BBDEFB", "#B3E5FC">>]]]

\* a _normalize_category that tests for 'light' before anything else
normalize_category_LightFirst(category) ==
    IF Contains(Characters("light"), Lower(Characters(category))) THEN "light" ELSE "medium"

\* ColorRecommendationService._normalize_category
normalize_category(category) ==
    LET category_lower == Replace(Lower(Characters(category)), " ", "_")
    IN  IF \/ Contains(Characters("very_light"), category_lower)
           \/ Contains(Characters("very light"), category_lower)
        THEN "very_light"
        ELSE IF /\ Contains(Characters("light"), category_lower)
                /\ ~Contains(Characters("medium"), category_lower)
        THEN "light"
        ELSE IF /\ Contains(Characters("dark"), category_lower)
                /\ ~Contains(Characters("medium"), category_lower)
        THEN "dark"
        ELSE "medium"

\* ColorRecommendationService._normalize_undertone
normalize_undertone(undertone) ==
    LET undertone_lower == Lower(Characters(undertone))
    IN  IF Contains(Characters("cool"), undertone_lower) THEN "cool"
        ELSE IF Contains(Characters("warm"), undertone_lower) THEN "warm"
        ELSE "neutral"

\* whether self.color_palettes[category][undertone] raises no KeyError
PaletteFound(category, undertone) ==
    /\ category \in DOMAIN color_palettes
    /\ undertone \in DOMAIN color_palettes[category]

\* ColorRecommendationService._get_base_palette
get_base_palette(category, undertone) ==
    IF PaletteFound(category, undertone) THEN color_palettes[category][undertone]
    ELSE color_palettes["medium"]["neutral"]

color_names ==
    <<"Navy Blue", "Royal Blue", "Sky Blue", "Powder Blue", "Forest Green", "Emerald",
      "Sage Green", "Mint Green", "Burgundy", "Crimson", "Rose", "Blush Pink", "Charcoal",
      "Slate Gray", "Silver", "Pearl White">>

avoid_names ==
    <<"Bright Orange", "Neon Yellow", "Hot Pink", "Electric Blue", "Lime Green", "Purple",
      "Magenta", "Coral">>

\* the largest number of colours a recommendation list takes from a palette
MaxColors == 8

\* colors[:8]
FirstColors(colors) ==
    SubSeq(colors, 1, IF Len(colors) < MaxColors THEN Len(colors) ELSE MaxColors)

\* ColorRecommendationService._generate_best_colors
generate_best_colors(palette) ==
    SubSeq([i \in 1 .. Len(FirstColors(palette.best)) |->
                [hex |-> palette.best[i], name |-> color_names[((i - 1) % Len(color_names)) + 1],
                 category |-> "best"]], 1, Len(FirstColors(palette.best)))

\* ColorRecommendationService._generate_avoid_colors
generate_avoid_colors(palette) ==
    SubSeq([i \in 1 .. Len(FirstColors(palette.avoid)) |->
                [hex |-> palette.avoid[i], name |-> avoid_names[((i - 1) % Len(avoid_names)) + 1],
                 category |-> "avoid"]], 1, Len(FirstColors(palette.avoid)))

\* ColorRecommendationService._generate_outfit_combinations; best_colors[k] of the
\* code is best_colors[k + 1] here
generate_outfit_combinations(best_colors) ==
    (IF Len(best_colors) >= 4
     THEN <<(<<best_colors[1].hex, best_colors[2].hex, best_colors[3].hex, "#FFFFFF">>)>>
     ELSE <<>>)
    \o (IF Len(best_colors) >= 6
        THEN <<(<<best_colors[3].hex, best_colors[5].hex, best_colors[6].hex, "#F5F5F5">>)>>
        ELSE <<>>)
    \o (IF Len(best_colors) >= 3
        THEN <<(<<"#000000", best_colors[1].hex, best_colors[2].hex, "#FFFFFF">>)>>
        ELSE <<>>)

\* ColorRecommendationService.get_recommendations: the entries made from the
\* palette. The seasonal, makeup, hair, theory and tips entries are fixed lists
\* chosen by undertone and lightness and take nothing from the palette.
get_recommendations(skin_analysis) ==
    LET palette == get_base_palette(normalize_category(skin_analysis.category),
                                    normalize_undertone(skin_analysis.undertone))
    IN  [best_colors |-> generate_best_colors(palette),
         avoid_colors |-> generate_avoid_colors(palette),
         outfit_combinations |-> generate_outfit_combinations(generate_best_colors(palette))]

(* ------------------------------ state --------------------------------- *)

\* image: the image the caller holds; op, arg: the last call and its arguments;
\* result: what the call returned or raised; lab: the L*a*b* image of the last
\* adjust_lightness call as handed to the conversion back to RGB; calls: the
\* adjust_* calls the last change_skin_tone call made, in the order made; app: the
\* state of the application (app/main.py), not used by the core operations.

NoResult == [status |-> "none", image |-> NoImage]

\* no application
NoApp == <<>>

NoArg == [magnitude |-> 0, name |-> "", radius |-> 0]

\* the adjustment values, tone names, feather radii and smoothing intensities
\* (percent) callers pass
Magnitudes == {-50, -20, 0, 20, 50}
ToneNames == Tones \cup {"pinkish"}
Radii == {1, 2}
Smoothings == {0, 30, 100}

Init ==
    /\ image \in Images
    /\ op = "none"
    /\ arg = NoArg
    /\ result = NoResult
    /\ lab = NoImage
    /\ calls = <<>>
    /\ app = NoApp

AdjustLightness ==
    \E m \in Magnitudes :
        /\ op = "none"
        /\ op' = "adjust_lightness"
        /\ arg' = [NoArg EXCEPT !.magnitude = m]
        /\ result' = adjust_lightness(image, m)
        /\ lab' = IF MaskIsZero(detect_skin_mask(image)) THEN NoImage
                  ELSE AdjustedLab(image, detect_skin_mask(image), m)
        /\ calls' = <<>>
        /\ UNCHANGED <<image, app>>

\* AdjustWarmth writing the scaled channels into the caller's image
AdjustWarmth_InPlace ==
    \E m \in Magnitudes :
        /\ op = "none"
        /\ op' = "adjust_warmth"
        /\ arg' = [NoArg EXCEPT !.magnitude = m]
        /\ result' = adjust_warmth(image, m)
        /\ lab' = NoImage
        /\ calls' = <<>>
        /\ image' = ImageOf(adjust_warmth(image, m))
        /\ UNCHANGED app

AdjustWarmth ==
    \E m \in Magnitudes :
        /\ op = "none"
        /\ op' = "adjust_warmth"
        /\ arg' = [NoArg EXCEPT !.magnitude = m]
        /\ result' = adjust_warmth(image, m)
        /\ lab' = NoImage
        /\ calls' = <<>>
        /\ UNCHANGED <<image, app>>

AdjustSaturation ==
    \E m \in Magnitudes :
        /\ op = "none"
        /\ op' = "adjust_saturation"
        /\ arg' = [NoArg EXCEPT !.magnitude = m]
        /\ result' = adjust_saturation(image, m)
        /\ lab' = NoImage
        /\ calls' = <<>>
        /\ UNCHANGED <<image, app>>

ChangeSkinTone ==
    \E t \in ToneNames :
        /\ op = "none"
        /\ op' = "change_skin_tone"
        /\ arg' = [NoArg EXCEPT !.name = t]
        /\ result' = change_skin_tone(image, t)
        /\ lab' = NoImage
        /\ calls' = SubAdjustments(image, t)
        /\ UNCHANGED <<image, app>>

ApplyGradualAdjustment ==
    \E k \in AdjustmentTypes \cup {"contrast"}, m \in {-20, 50}, r \in Radii :
        /\ op = "none"
        /\ op' = "apply_gradual_adjustment"
        /\ arg' = [magnitude |-> m, name |-> k, radius |-> r]
        /\ result' = apply_gradual_adjustment(image, k, m, r)
        /\ lab' = NoImage
        /\ calls' = <<>>
        /\ UNCHANGED <<image, app>>

EnhanceSkinTexture ==
    \E s \in Smoothings :
        /\ op = "none"
        /\ op' = "enhance_skin_texture"
        /\ arg' = [NoArg EXCEPT !.magnitude = s]
        /\ result' = enhance_skin_texture(image, s)
        /\ lab' = NoImage
        /\ calls' = <<>>
        /\ UNCHANGED <<image, app>>

\* analyze_skin_tone(image) with step f failing; the mask and the clustering do not
\* depend on f
AnalyzeSkinTone ==
    /\ op = "none"
    /\ \E skin_mask \in {detect_skin_regions(image)} :
         \E clusterings \in {Clusterings(image, skin_mask)} :
           \E f \in FailureSteps \cup {"none"} :
             /\ op' = "analyze_skin_tone"
             /\ arg' = [NoArg EXCEPT !.name = f]
             /\ result' \in AnalyzeAll(image, skin_mask, f, clusterings)
             /\ lab' = NoImage
             /\ calls' = <<>>
             /\ UNCHANGED <<image, app>>

\* the caller drops the result; the next call starts from its image
Discard ==
    /\ op # "none"
    /\ op' = "none"
    /\ arg' = NoArg
    /\ result' = NoResult
    /\ lab' = NoImage
    /\ calls' = <<>>
    /\ UNCHANGED <<image, app>>

Next ==
    \/ Discard
    \/ AdjustLightness
    \/ AdjustWarmth
    \/ AdjustSaturation
    \/ ChangeSkinTone
    \/ ApplyGradualAdjustment
    \/ EnhanceSkinTexture
    \/ AnalyzeSkinTone

Spec == Init /\ [][Next]_vars

(* --------------- the analyzer's functions on their own ---------------- *)

\* how far, in tenths, the lightness inputs reach beyond 0..100
LightnessMargin == 50
\* the largest red - blue difference of the mean colour inputs, in hundredths
MaxDiff == 2600
\* the largest number of image pixels of the confidence inputs
MaxPixels == 20

LightnessInputs ==
    {[kind |-> "lightness", lightness |-> l] : l \in (-LightnessMargin) .. (1000 + LightnessMargin)}

\* mean colours over n = 100 pixels: the channel sums are hundredths of a level
ColorInputs ==
    UNION {{[kind |-> "color", avg |-> [sum |-> <<b + d, g, b>>, n |-> 100]] :
                g \in {0, 12800, 25500},
                d \in {e \in (-MaxDiff) .. MaxDiff : e % 5 = 0 /\ b + e \in 0 .. 25500}} :
           b \in {1600, 4050, 5300, 6600, 10000, 23900}}

\* mean colours of whole levels: hue 30 degrees, hues on both sides of it, hues that
\* wrap around 0 and 360, greys, and colours whose largest channel is green or blue
HueColors ==
    {<<180, 130, 80>>, <<70, 50, 30>>, <<200, 150, 100>>, <<220, 160, 100>>, <<200, 150, 120>>,
     <<200, 110, 100>>, <<200, 100, 100>>, <<200, 100, 110>>, <<128, 128, 128>>, <<0, 0, 0>>,
     <<255, 255, 255>>, <<100, 200, 50>>, <<40, 80, 200>>, <<120, 80, 60>>, <<200, 40, 220>>}

HueInputs ==
    {[kind |-> "color", avg |-> [sum |-> <<100 * c[1], 100 * c[2], 100 * c[3]>>, n |-> 100]] :
        c \in HueColors}

\* one channel of a pixel, its value in the adjusted image and the feathered mask
\* at the pixel
BlendInputs ==
    {[kind |-> "blend", original |-> o, adjusted |-> a, weight |-> w] :
        o \in {150, 200}, a \in {150, 200, 230}, w \in 0 .. 255}

MaskInputs ==
    {[kind |-> "mask", skin_pixels |-> k, total_pixels |-> t] :
        t \in 1 .. MaxPixels, k \in 0 .. MaxPixels}

\* the numbers of samples of one colour and the numbers of clusters asked for
SampleCounts == {0, 1, 2, 9}
ClusterCounts == {1, 2, 3, NColors}

PixelInputs ==
    {[kind |-> "pixels", samples |-> s, n_colors |-> k] :
        s \in [Palette -> SampleCounts], k \in ClusterCounts}

\* pixels on and next to the bounds of the skin ranges: hue 20 and 21, saturation
\* 20 and 19, value 70, 69 and 255, Cr 135, 134, 180 and 181, Cb 85 and 84
BoundaryPixels ==
    {<<70, 46, 0>>, <<70, 48, 0>>, <<175, 161, 161>>, <<184, 170, 170>>, <<70, 0, 0>>,
     <<69, 0, 0>>, <<255, 150, 151>>, <<70, 56, 50>>, <<70, 57, 54>>, <<104, 0, 0>>,
     <<105, 0, 0>>, <<109, 74, 0>>, <<112, 75, 0>>}

\* images of two halves, each of one colour
ImageInputs ==
    {[kind |-> "image", image |-> Row([x \in Pos |-> IF 2 * x <= Width THEN p ELSE q])] :
        p, q \in BoundaryPixels \cup Palette}

\* one pixel of an image with skin in it, the value of the mask at the pixel and
\* the warmth adjustment
WarmthInputs ==
    {[kind |-> "warmth", pixel |-> <<r, 128, b>>, mask |-> w, magnitude |-> m] :
        r \in 0 .. 255, b \in {0, 60, 200, 240, 255}, w \in {0, 64, 255}, m \in Magnitudes}

\* analyses with the category and undertone names the analyzer returns, and with a
\* category and an undertone that it does not
CategoryNames == {skin_tone_categories[i].name : i \in 1 .. Len(skin_tone_categories)}
UndertoneNames == {"Warm", "Cool", "Neutral"}
RecommendationInputs ==
    {[kind |-> "analysis", skin_analysis |-> [category |-> c, undertone |-> u, lightness |-> l]] :
        c \in CategoryNames \cup {"Tan"}, u \in UndertoneNames \cup {"Olive"}, l \in {300, 700}}

InitPure ==
    /\ image = NoImage
    /\ op = "none"
    /\ arg \in LightnessInputs \cup ColorInputs \cup HueInputs \cup PixelInputs \cup WarmthInputs
                \cup ImageInputs \cup BlendInputs \cup RecommendationInputs
                \cup {m \in MaskInputs : m.skin_pixels <= m.total_pixels}
    /\ result = NoResult
    /\ lab = NoImage
    /\ calls = <<>>
    /\ app = NoApp

\* return value
Returned(value) == [status |-> "ok", image |-> NoImage, value |-> value]

ClassifySkinToneCategory ==
    /\ op = "none"
    /\ arg.kind = "lightness"
    /\ op' = "classify_skin_tone_category"
    /\ result' = Returned(classify_skin_tone_category(arg.lightness))
    /\ UNCHANGED <<image, arg, lab, calls, app>>

DetermineUndertone ==
    /\ op = "none"
    /\ arg.kind = "color"
    /\ op' = "determine_undertone"
    /\ result' = Returned(determine_undertone(arg.avg, FALSE))
    /\ UNCHANGED <<image, arg, lab, calls, app>>

CalculateConfidence ==
    /\ op = "none"
    /\ arg.kind = "mask"
    /\ op' = "calculate_confidence"
    /\ result' = Returned(calculate_confidence(arg.skin_pixels, arg.total_pixels, FALSE))
    /\ UNCHANGED <<image, arg, lab, calls, app>>

GetDominantColors ==
    /\ op = "none"
    /\ arg.kind = "pixels"
    /\ op' = "get_dominant_colors"
    /\ result' \in get_dominant_colors(arg.samples, arg.n_colors, FALSE)
    /\ UNCHANGED <<image, arg, lab, calls, app>>

\* adjust_warmth at one pixel of an image whose mask is not all zero
AdjustWarmthAt ==
    /\ op = "none"
    /\ arg.kind = "warmth"
    /\ op' = "adjust_warmth"
    /\ result' = Returned(WarmPixel(arg.pixel, arg.mask, arg.magnitude))
    /\ UNCHANGED <<image, arg, lab, calls, app>>

\* the mask of _detect_skin_regions and _detect_skin_mask before the morphology
DetectRawMask ==
    /\ op = "none"
    /\ arg.kind = "image"
    /\ op' = "raw_mask"
    /\ result' = Returned(RawMask(arg.image))
    /\ UNCHANGED <<image, arg, lab, calls, app>>

CalculateColorTemperature ==
    /\ op = "none"
    /\ arg.kind = "color"
    /\ op' = "calculate_color_temperature"
    /\ result' = Returned(calculate_color_temperature(arg.avg, FALSE))
    /\ UNCHANGED <<image, arg, lab, calls, app>>

\* get_recommendations, with the palette lookup it made
GetRecommendations ==
    /\ op = "none"
    /\ arg.kind = "analysis"
    /\ op' = "get_recommendations"
    /\ result' = Returned(get_recommendations(arg.skin_analysis))
    /\ calls' = <<[name |-> "get_base_palette",
                   category |-> normalize_category(arg.skin_analysis.category),
                   undertone |-> normalize_undertone(arg.skin_analysis.undertone),
                   found |-> PaletteFound(normalize_category(arg.skin_analysis.category),
                                          normalize_undertone(arg.skin_analysis.undertone))]>>
    /\ UNCHANGED <<image, arg, lab, app>>

\* analyze_skin_tone's undertone and temperature of one mean colour
UndertoneAndTemperature ==
    /\ op = "none"
    /\ arg.kind = "color"
    /\ op' = "undertone_and_temperature"
    /\ result' = Returned([undertone |-> determine_undertone(arg.avg, FALSE),
                           temperature |-> calculate_color_temperature(arg.avg, FALSE)])
    /\ UNCHANGED <<image, arg, lab, calls, app>>

GetColorHarmonyInfo ==
    /\ op = "none"
    /\ arg.kind = "color"
    /\ op' = "get_color_harmony_info"
    /\ result' = Returned(get_color_harmony_info(arg.avg, FALSE))
    /\ UNCHANGED <<image, arg, lab, calls, app>>

\* the blend of apply_gradual_adjustment at one channel of one pixel
BlendAt ==
    /\ op = "none"
    /\ arg.kind = "blend"
    /\ op' = "apply_gradual_adjustment"
    /\ result' = Returned(Blend(arg.original, arg.adjusted, arg.weight))
    /\ UNCHANGED <<image, arg, lab, calls, app>>

NextPure ==
    \/ BlendAt
    \/ GetRecommendations
    \/ UndertoneAndTemperature
    \/ GetColorHarmonyInfo
    \/ CalculateColorTemperature
    \/ DetectRawMask
    \/ AdjustWarmthAt
    \/ GetDominantColors
    \/ ClassifySkinToneCategory
    \/ DetermineUndertone
    \/ CalculateConfidence

SpecPure == InitPure /\ [][NextPure]_vars

(* ----------------------- the application state ------------------------ *)

\* SkinToneAnalyzerApp of app/main.py. A handler runs on the event loop up to its
\* next await asyncio.to_thread(...), where it is suspended until the worker thread
\* has finished; handlers started meanwhile run in between, and the threads of
\* several suspended handlers finish in any order. An image is the uploaded file it
\* was loaded from and the adjustments applied to it since; an analysis is the
\* image it was computed from.

\* the number of requests (uploads, slider changes, resets) of a session
MaxRequests == 3

\* uploaded files: a photo with skin, a photo without, and a file that is no image
Uploads == {"face", "wall"}
InvalidUploads == {"notes"}

\* the slider that changed and its new value
AdjustmentKinds == {"lightness", "warmth", "saturation"}
SliderValues == {10, 20}

None == [is |-> "None"]

\* image_processor.load_image(temp_path)
LoadedImage(upload) == [is |-> "image", base |-> upload, steps |-> <<>>]

\* whether the analysis of the image finds skin
HasSkin(img) == img.base = "face"

\* skin_tone_modifier.adjust_<kind>(img, value): an image without skin comes back
\* as it is
AdjustedImage(img, kind, value) ==
    IF HasSkin(img) THEN [img EXCEPT !.steps = Append(@, <<kind, value>>)] ELSE img

\* color_analyzer.analyze_skin_tone(img), when it returns
AnalysisOf(img) == [is |-> "analysis", of |-> img]

\* recommendation_service.get_recommendations(analysis)
RecommendationsFor(analysis) == [is |-> "recommendations", for |-> analysis]

\* the application state after __init__, with no handler started
InitialApp ==
    [original_image |-> None, current_image |-> None, skin_tone_analysis |-> None,
     color_recommendations |-> None, tasks |-> <<>>]

\* a handler that has returned
Finished(handler, request) ==
    [handler |-> handler, request |-> request, pc |-> "done", image |-> None,
     analysis |-> None]

\* a handler suspended at pc on a worker thread that was given image or analysis
Suspended(handler, request, pc, img, analysis) ==
    [handler |-> handler, request |-> request, pc |-> pc, image |-> img,
     analysis |-> analysis]

NoRequest == [kind |-> "none", value |-> 0]

\* await self.analyze_skin_tone(), entered with current_image = img: the handler is
\* suspended on the analysis of img
AwaitAnalysis(task, img) ==
    Suspended(task.handler, task.request, "analyze_skin_tone", img, None)

\* self.skin_tone_analysis after analyze_skin_tone on img: the except clause only
\* notifies, the attribute keeps its value
AnalysisAfter(analysis, img) == IF HasSkin(img) THEN AnalysisOf(img) ELSE analysis

\* generate_recommendations, entered with skin_tone_analysis = analysis: it returns
\* at once when there is none, else the handler is suspended on get_recommendations
AwaitRecommendations(task, analysis) ==
    IF analysis = None THEN Finished(task.handler, task.request)
    ELSE Suspended(task.handler, task.request, "generate_recommendations", None, analysis)

AppStep(name, task, next_app) ==
    /\ op' = name
    /\ arg' = task
    /\ app' = next_app
    /\ UNCHANGED <<image, result, lab, calls>>

CanStart == Len(app.tasks) < MaxRequests

\* the handlers suspended at pc
SuspendedAt(pc) == {i \in 1 .. Len(app.tasks) : app.tasks[i].pc = pc}

\* handle_image_upload of a file that validate_upload rejects
RejectUpload ==
    \E u \in InvalidUploads :
        /\ CanStart
        /\ AppStep("handle_image_upload", Finished("handle_image_upload", [NoRequest EXCEPT !.kind = u]),
                   [app EXCEPT !.tasks = Append(@, Finished("handle_image_upload",
                                                           [NoRequest EXCEPT !.kind = u]))])

\* handle_image_upload up to the await in analyze_skin_tone
HandleImageUpload ==
    \E u \in Uploads :
        \E task \in {AwaitAnalysis(Finished("handle_image_upload", [NoRequest EXCEPT !.kind = u]),
                                   LoadedImage(u))} :
            /\ CanStart
            /\ AppStep("handle_image_upload", task,
                       [app EXCEPT !.original_image = LoadedImage(u),
                                   !.current_image = LoadedImage(u),
                                   !.tasks = Append(@, task)])

\* an adjust_skin_tone that works on the image on display
AdjustFrom_Current(state) == state.current_image

\* the image adjust_skin_tone hands to the worker thread
AdjustFrom(state) == state.original_image

\* adjust_skin_tone up to its await: it returns at once when nothing is uploaded
AdjustSkinTone ==
    \E k \in AdjustmentKinds, v \in SliderValues :
        \E task \in {IF app.original_image = None
                     THEN Finished("adjust_skin_tone", [kind |-> k, value |-> v])
                     ELSE Suspended("adjust_skin_tone", [kind |-> k, value |-> v],
                                    "adjust", AdjustFrom(app), None)} :
            /\ CanStart
            /\ AppStep("adjust_skin_tone", task, [app EXCEPT !.tasks = Append(@, task)])

\* reset_image up to the await in analyze_skin_tone
ResetImage ==
    /\ CanStart
    /\ \E task \in {IF app.original_image = None
                    THEN Finished("reset_image", NoRequest)
                    ELSE AwaitAnalysis(Finished("reset_image", NoRequest), app.original_image)} :
         AppStep("reset_image", task,
                 [app EXCEPT !.current_image = IF app.original_image = None THEN @
                                               ELSE app.original_image,
                             !.tasks = Append(@, task)])

\* adjust_skin_tone resumed with the adjusted image, up to the await in
\* analyze_skin_tone
AdjustmentDone ==
    \E i \in SuspendedAt("adjust") :
        \E adjusted \in {AdjustedImage(app.tasks[i].image, app.tasks[i].request.kind,
                                       app.tasks[i].request.value)} :
            AppStep("adjustment_done", app.tasks[i],
                       [app EXCEPT !.current_image = adjusted,
                                   !.tasks[i] = AwaitAnalysis(@, adjusted)])

\* a handler resumed in analyze_skin_tone with the outcome of the analysis, up to
\* the await in generate_recommendations
AnalysisDone ==
    \E i \in SuspendedAt("analyze_skin_tone") :
        \E analysis \in {AnalysisAfter(app.skin_tone_analysis, app.tasks[i].image)} :
            AppStep("analysis_done", app.tasks[i],
                       [app EXCEPT !.skin_tone_analysis = analysis,
                                   !.tasks[i] = AwaitRecommendations(@, analysis)])

\* a handler resumed in generate_recommendations, to its end
RecommendationsDone ==
    \E i \in SuspendedAt("generate_recommendations") :
        AppStep("recommendations_done", app.tasks[i],
                   [app EXCEPT !.color_recommendations = RecommendationsFor(app.tasks[i].analysis),
                               !.tasks[i] = Finished(@.handler, @.request)])

InitApp ==
    /\ image = NoImage
    /\ op = "none"
    /\ arg = NoArg
    /\ result = NoResult
    /\ lab = NoImage
    /\ calls = <<>>
    /\ app = InitialApp

NextApp ==
    \/ RejectUpload
    \/ HandleImageUpload
    \/ AdjustSkinTone
    \/ ResetImage
    \/ AdjustmentDone
    \/ AnalysisDone
    \/ RecommendationsDone

SpecApp == InitApp /\ [][NextApp]_vars

(* ------------------------------ claims -------------------------------- *)

\* the six half-open buckets of lightness, in tenths
C6_Buckets ==
    << <<0, 250, "Very Light">>, <<250, 400, "Light">>, <<400, 550, "Light Medium">>,
       <<550, 700, "Medium">>, <<700, 850, "Medium Dark">>, <<850, 1000, "Dark">> >>

C6_Containing(l) == {i \in 1 .. 6 : C6_Buckets[i][1] <= l /\ l < C6_Buckets[i][2]}

\* C6: for every lightness L with 0 <= L < 100 exactly one of the six half-open
\* buckets contains L and the classifier returns that bucket's name; a boundary
\* value belongs to the bucket that starts there.
C6_ClassificationTotal ==
    (op = "classify_skin_tone_category" /\ 0 <= arg.lightness /\ arg.lightness < 1000)
        => /\ Cardinality(C6_Containing(arg.lightness)) = 1
           /\ \A i \in C6_Containing(arg.lightness) : result.value = C6_Buckets[i][3]

C6_Witness ==
    op = "classify_skin_tone_category" /\ arg.lightness = 250 /\ result.value = "Light"

\* C7: a lightness of 100 or more is classified 'Dark' and a lightness below 0
\* 'Very Light'.
C7_OutOfRangeTerminal ==
    op = "classify_skin_tone_category"
        => /\ arg.lightness >= 1000 => result.value = "Dark"
           /\ arg.lightness < 0 => result.value = "Very Light"

C7_Witness ==
    op = "classify_skin_tone_category" /\ arg.lightness > 1000 /\ result.value = "Dark"

\* C8: the undertone is 'Warm' when d = (mean red - mean blue) / 255 > 0.05, 'Cool'
\* when d < -0.05 and 'Neutral' for every d in [-0.05, 0.05], whatever the mean green.
C8_UndertoneByRedBlue ==
    op = "determine_undertone"
        => LET diff == arg.avg.sum[1] - arg.avg.sum[3]
               twentieth == 255 * arg.avg.n
           IN  /\ 20 * diff > twentieth => result.value = "Warm"
               /\ 20 * diff < -twentieth => result.value = "Cool"
               /\ (-twentieth <= 20 * diff /\ 20 * diff <= twentieth) => result.value = "Neutral"

\* C9: the confidence is 0.3 for a skin ratio r < 0.05, 0.6 for 0.05 <= r < 0.15,
\* 0.9 for 0.15 <= r < 0.40 and 0.8 for r >= 0.40.
C9_ConfidenceBySkinRatio ==
    op = "calculate_confidence"
        => LET k == 100 * arg.skin_pixels
               t == arg.total_pixels
           IN  /\ k < 5 * t => result.value = 3
               /\ (5 * t <= k /\ k < 15 * t) => result.value = 6
               /\ (15 * t <= k /\ k < 40 * t) => result.value = 9
               /\ 40 * t <= k => result.value = 8

\* exactly 5.0% skin pixels: 1 of 20
C9_Witness ==
    /\ op = "calculate_confidence"
    /\ arg.skin_pixels = 1
    /\ arg.total_pixels = 20
    /\ result.value = 6

\* no pixel of img passes both range tests
NoPixelInBothRanges(img) == \A x \in Pos : RawMask(img)[x] = 0

\* what tells one raised error from another: its exception class and the
\* operation it reports as failed
ErrorKind(r) == <<r.type, r.what>>

\* an internal failure of the analysis other than the missing skin: the clustering
\* raises on an image of skin pixels
OtherAnalysisFailures == analyze_skin_tone([x \in Pos |-> LightSkin], "cluster")

\* C1: on an image with no pixel in both skin ranges the detector returns an
\* all-zero mask and analyze_skin_tone raises an error whose kind differs from
\* that of its other internal failures, returning no analysis record.
C1_NoSkinDistinctError ==
    (op = "analyze_skin_tone" /\ arg.name = "none" /\ NoPixelInBothRanges(image))
        => /\ MaskIsZero(detect_skin_regions(image))
           /\ result.status = "error"
           /\ \A r \in OtherAnalysisFailures : ErrorKind(result) # ErrorKind(r)

\* two channel values differ by at most tol levels
Within(a, b, tol) == Abs(a - b) <= tol

\* every channel of every pixel of a is within tol levels of b
ImagesWithin(a, b, tol) ==
    \A x \in Pos : \A c \in 1 .. 3 : Within(a[x][c], b[x][c], tol)

\* C2: adjust_lightness with magnitude 0 returns an image equal to its input
\* within a rounding tolerance of four levels per channel.
C2_ZeroLightnessIsIdentity ==
    (op = "adjust_lightness" /\ arg.magnitude = 0)
        => /\ result.status = "ok"
           /\ ImagesWithin(result.image, image, 4)

\* L* x (1 + magnitude / 100) clamped to [0, 100], on the 8-bit scale where L* = 100
\* is 255
C3_ExpectedL(l, magnitude) == Clip((l * (100 + magnitude)) \div 100, 0, 255)

\* C3: adjust_lightness sets the L* of every pixel with mask > 0 to
\* clamp(L* x (1 + magnitude / 100), 0, 100) and leaves the L* of the pixels with
\* mask = 0; a magnitude > 0 never lowers the lightness of a skin pixel whose L* is
\* below 100.
C3_LightnessScalesL ==
    (op = "adjust_lightness" /\ lab # NoImage)
        => \A x \in Pos :
              LET l == RGB2LAB(image[x])[1]
              IN  IF detect_skin_mask(image)[x] > 0
                  THEN /\ lab[x][1] = C3_ExpectedL(l, arg.magnitude)
                       /\ (arg.magnitude > 0 /\ l < 255) => lab[x][1] >= l
                  ELSE lab[x][1] = l

ModifierOps ==
    {"adjust_lightness", "adjust_warmth", "adjust_saturation", "change_skin_tone",
     "apply_gradual_adjustment", "enhance_skin_texture"}

\* C4: on an image whose skin mask is entirely zero each of the six modifier
\* operations returns the input's pixel values and raises no error (a composite
\* tone is one of the four presets).
C4_NoSkinNoChange ==
    (/\ op \in ModifierOps
     /\ op = "change_skin_tone" => arg.name \in Tones
     /\ MaskIsZero(detect_skin_mask(image)))
        => /\ result.status = "ok"
           /\ result.image = image

\* a skin pixel too isolated to survive the opening, and the strongest lightening
C4_Witness ==
    /\ op = "adjust_lightness"
    /\ arg.magnitude = 50
    /\ MaskIsZero(detect_skin_mask(image))
    /\ \E x \in Pos : image[x] = LightSkin
    /\ result.image = image

\* C5: in the output of a scalar adjustment every pixel whose mask weight is 0 has
\* the RGB value of the input: exactly for warmth, within four levels per channel
\* (the drift of an 8-bit colour-space round trip) for lightness and saturation.
C5_NonSkinUnchanged ==
    (op \in {"adjust_lightness", "adjust_warmth", "adjust_saturation"})
        => /\ result.status = "ok"
           /\ \A x \in Pos :
                 detect_skin_mask(image)[x] = 0
                     => IF op = "adjust_warmth" THEN result.image[x] = image[x]
                        ELSE \A c \in 1 .. 3 : Within(result.image[x][c], image[x][c], 4)

\* a pixel outside the mask beside adjusted skin, itself moved by the round trip
C5_Witness ==
    /\ op = "adjust_lightness"
    /\ arg.magnitude = -50
    /\ \E x \in Pos : detect_skin_mask(image)[x] = 0 /\ result.image[x] # image[x]
    /\ \E x \in Pos : detect_skin_mask(image)[x] > 0 /\ result.image[x] # image[x]

\* C10: every analysis record has lightness in [0, 100] and confidence in [0, 1],
\* also when the lightness comes from the fallback or the confidence from its default.
C10_RangesHold ==
    (op = "analyze_skin_tone" /\ result.status = "ok")
        => /\ 0 <= result.analysis.lightness /\ result.analysis.lightness <= 1000
           /\ 0 <= result.analysis.confidence /\ result.analysis.confidence <= 10

\* the lightness fallback on a record of light skin
C10_Witness ==
    /\ op = "analyze_skin_tone"
    /\ arg.name = "lightness"
    /\ result.status = "ok"
    /\ result.analysis.lightness > 550

\* the steps the analysis runs after its no-skin precondition, and the mask detection
C11_Steps == {"detect", "cluster", "undertone", "temperature", "harmony", "confidence"}

\* C11: when a step of analyze_skin_tone other than the no-skin precondition fails
\* (mask detection, clustering, undertone, temperature, harmony or confidence), the
\* call raises the analysis failure and returns no record.
C11_StepFailureRaises ==
    (/\ op = "analyze_skin_tone"
     /\ arg.name \in C11_Steps
     /\ arg.name = "detect" \/ ~MaskIsZero(detect_skin_regions(image)))
        => /\ result.status = "error"
           /\ result.what = "Skin tone analysis"

\* a pixel set of nine samples of one colour and one of another, two clusters asked
C12_NineToOne(nine, one) ==
    /\ arg.n_colors = 2
    /\ nine # one
    /\ arg.samples = [c \in Palette |-> IF c = nine THEN 9 ELSE IF c = one THEN 1 ELSE 0]

C13_DegenerateClusteringRaises ==
    (/\ op = "get_dominant_colors"
     /\ SampleCount(arg.samples) = 0 \/ Cardinality(Present(arg.samples)) < arg.n_colors)
        => result.status = "error"

\* C15: change_skin_tone with a tone name outside the presets raises the
\* "Unknown target tone" error: it makes no adjust_* call, returns no image and
\* leaves the caller's image as it was.
C15_UnknownToneFails ==
    [][(op' = "change_skin_tone" /\ arg'.name \notin Tones)
          => /\ result'.status = "error"
             /\ result'.cause = "Unknown target tone"
             /\ result'.image = NoImage
             /\ calls' = <<>>
             /\ image' = image]_vars

C15_Witness ==
    /\ op = "change_skin_tone"
    /\ arg.name = "pinkish"
    /\ result = Failed("Skin tone change", "Unknown target tone")
    /\ calls = <<>>
    /\ detect_skin_mask(image)[1] > 0

\* the image a recorded adjust_* call returns
C16_Output(call) ==
    CASE call.name = "adjust_lightness" -> ImageOf(adjust_lightness(call.input, call.value))
      [] call.name = "adjust_warmth" -> ImageOf(adjust_warmth(call.input, call.value))
      [] call.name = "adjust_saturation" -> ImageOf(adjust_saturation(call.input, call.value))

\* lightness, warmth, saturation of a preset, those of value 0 left out
C16_NonZero(step) == step[2] # 0

C16_Expected(params) ==
    SelectSeq(<<<<"adjust_lightness", params.lightness>>, <<"adjust_warmth", params.warmth>>,
                <<"adjust_saturation", params.saturation>>>>, C16_NonZero)

\* C16: change_skin_tone on a known tone calls adjust_lightness, adjust_warmth and
\* adjust_saturation in that order, leaving out exactly those whose preset value is
\* 0; the first call works on the input, every later call on the image the call
\* before it returned, and the image of the last call is returned. For 'warmer'
\* the calls are adjust_warmth(20), adjust_saturation(10).
C16_FixedOrder ==
    (op = "change_skin_tone" /\ arg.name \in Tones)
        => /\ result.status = "ok"
           /\ [i \in 1 .. Len(calls) |-> <<calls[i].name, calls[i].value>>]
                 = C16_Expected(Preset(arg.name))
           /\ \A i \in 1 .. Len(calls) :
                 calls[i].input = IF i = 1 THEN image ELSE C16_Output(calls[i - 1])
           /\ result.image = IF calls = <<>> THEN image ELSE C16_Output(calls[Len(calls)])
           /\ arg.name = "warmer"
                 => [i \in 1 .. Len(calls) |-> <<calls[i].name, calls[i].value>>]
                       = <<<<"adjust_warmth", 20>>, <<"adjust_saturation", 10>>>>

C16_Witness ==
    /\ op = "change_skin_tone"
    /\ arg.name = "warmer"
    /\ Len(calls) = 2
    /\ calls[1].input = image
    /\ calls[2].input # image
    /\ result.status = "ok"
    /\ result.image # calls[2].input

\* the factors of red and blue the warmth adjustment is to apply, in thousandths
C17_RedFactor(magnitude) ==
    IF magnitude > 0 THEN 1000 + 3 * magnitude
    ELSE IF magnitude < 0 THEN 1000 + 2 * magnitude ELSE 1000

C17_BlueFactor(magnitude) ==
    IF magnitude > 0 THEN 1000 - 2 * magnitude
    ELSE IF magnitude < 0 THEN 1000 - 3 * magnitude ELSE 1000

\* stored is the 8-bit value of channel * factor / 1000 clamped to 0..255: at most
\* one level below it, never above
C17_Scaled(stored, channel, factor) ==
    /\ 1000 * stored <= Clip(channel * factor, 0, 255000)
    /\ 1000 * stored >= Clip(channel * factor, 0, 255000) - 1000

\* C17: adjust_warmth leaves green as it is at every pixel and changes nothing
\* where the mask is 0; where the mask is > 0 red is scaled by 1 + 0.3m and blue by
\* 1 - 0.2m for a magnitude > 0, red by 1 + 0.2m and blue by 1 - 0.3m for a
\* magnitude < 0 (m = magnitude / 100), each clamped to 0..255; a magnitude > 0
\* never lowers red nor raises blue, a magnitude < 0 never raises red nor lowers
\* blue, and magnitude 0 returns the input values.
C17_WarmthScales ==
    (op = "adjust_warmth" /\ arg.kind = "warmth")
        => /\ result.value[2] = arg.pixel[2]
           /\ arg.mask = 0 => result.value = arg.pixel
           /\ arg.mask > 0 =>
                 /\ C17_Scaled(result.value[1], arg.pixel[1], C17_RedFactor(arg.magnitude))
                 /\ C17_Scaled(result.value[3], arg.pixel[3], C17_BlueFactor(arg.magnitude))
           /\ arg.magnitude > 0 =>
                 result.value[1] >= arg.pixel[1] /\ result.value[3] <= arg.pixel[3]
           /\ arg.magnitude < 0 =>
                 result.value[1] <= arg.pixel[1] /\ result.value[3] >= arg.pixel[3]
           /\ arg.magnitude = 0 => result.value = arg.pixel

\* a skin pixel made warmer: red is clamped at 255, blue is lowered
C17_Witness ==
    /\ op = "adjust_warmth"
    /\ arg.kind = "warmth"
    /\ arg.mask > 0
    /\ arg.magnitude = 50
    /\ arg.pixel = <<240, 128, 200>>
    /\ result.value = <<255, 128, 180>>

\* C18: on every image the mask of the modifier is > 0 at exactly the pixels where
\* the mask of the analyzer is > 0.
C18_SameSkinPixels ==
    \A skin_mask \in {detect_skin_mask(image)}, skin_regions \in {detect_skin_regions(image)} :
        \A x \in Pos : (skin_mask[x] > 0) <=> (skin_regions[x] > 0)

\* the two range tests of a skin pixel on its HSV and YCrCb values
C19_InBothRanges(p) ==
    /\ RGB2HSV(p)[1] \in 0 .. 20
    /\ RGB2HSV(p)[2] \in 20 .. 255
    /\ RGB2HSV(p)[3] \in 70 .. 255
    /\ RGB2YCrCb(p)[2] \in 135 .. 180
    /\ RGB2YCrCb(p)[3] \in 85 .. 135

\* C19: the mask before the morphology is 255 at the pixels whose HSV value has
\* H in 0..20, S in 20..255, V in 70..255 and whose YCrCb value has Cr in 135..180,
\* Cb in 85..135, the bounds included, and 0 at every other pixel; when every
\* pixel passes both tests the mask is 255 everywhere.
C19_RawMaskIsConjunction ==
    (op = "raw_mask")
        => /\ \A x \in Pos :
                 result.value[x] = IF C19_InBothRanges(arg.image[x]) THEN 255 ELSE 0
           /\ (\A x \in Pos : C19_InBothRanges(arg.image[x]))
                 => result.value = Row([x \in Pos |-> 255])

\* an image of pixels on the bounds: hue 20 with value 70, and saturation 20 with Cr 135
C19_Witness ==
    /\ op = "raw_mask"
    /\ arg.image[1] = <<70, 46, 0>>
    /\ arg.image[Width] = <<175, 161, 161>>
    /\ \A x \in Pos : result.value[x] = 255

\* C20: with r and b the mean red and blue divided by 255, the temperature is
\* 'Warm' for r - b > 0.1, 'Neutral-Warm' for 0 < r - b <= 0.1, 'Neutral' for
\* r = b, 'Neutral-Cool' for 0 < b - r <= 0.1 and 'Cool' for b - r > 0.1.
C20_TemperatureByRedBlue ==
    op = "calculate_color_temperature"
        => LET diff == arg.avg.sum[1] - arg.avg.sum[3]
               tenth == 255 * arg.avg.n
           IN  /\ 10 * diff > tenth => result.value = "Warm"
               /\ (0 < diff /\ 10 * diff <= tenth) => result.value = "Neutral-Warm"
               /\ diff = 0 => result.value = "Neutral"
               /\ (diff < 0 /\ 10 * diff >= -tenth) => result.value = "Neutral-Cool"
               /\ 10 * diff < -tenth => result.value = "Cool"

\* the hues a harmony record derives from its base hue, in hundredths of a degree
C21_Derived(info) ==
    {info.complementary, info.triadic[1], info.triadic[2], info.analogous[1], info.analogous[2]}

\* C21: with base hue h the record has complementary (h + 180) mod 360, triadic
\* (h + 120) mod 360 and (h + 240) mod 360, analogous (h + 30) mod 360 and
\* (h - 30) mod 360; every derived hue is at least 0 and below 360, and the
\* saturation and the value lie in 0..1.
C21_HarmonyHues ==
    op = "get_color_harmony_info"
        => LET info == result.value
               h == info.base_hue
           IN  /\ info.complementary = (h + 18000) % 36000
               /\ info.triadic = <<(h + 12000) % 36000, (h + 24000) % 36000>>
               /\ info.analogous = <<(h + 3000) % 36000, (h - 3000) % 36000>>
               /\ \A d \in C21_Derived(info) : 0 <= d /\ d < 36000
               /\ info.saturation \in 0 .. 1000
               /\ info.value \in 0 .. 1000

\* C22: the value apply_gradual_adjustment returns for a channel is the blend
\* original * (1 - a) + adjusted * a with a = weight / 255 stored in 8 bits: it lies
\* between the original and the adjusted value, is the original where a = 0 and
\* the adjusted value where a = 1.
C22_BlendBetween ==
    (op = "apply_gradual_adjustment" /\ arg.kind = "blend")
        => /\ Min2(arg.original, arg.adjusted) <= result.value
           /\ result.value <= Max2(arg.original, arg.adjusted)
           /\ arg.weight = 0 => result.value = arg.original
           /\ arg.weight = 255 => result.value = arg.adjusted

\* alpha of enhance_skin_texture at a pixel, in units of 1 / 25500: the mask value
\* over 255 times the smoothing in percent
C23_Alpha(weight, smoothing) == weight * smoothing

\* C23: with a smoothing in 0..1 the alpha of enhance_skin_texture is in 0..1 at
\* every pixel; a pixel whose mask value is 0 keeps its value; smoothing 0 returns
\* the values of the input, skin detected or not.
C23_TextureBlend ==
    (op = "enhance_skin_texture")
        => \A skin_mask \in {detect_skin_mask(image)} :
              /\ result.status = "ok"
              /\ \A x \in Pos :
                    /\ 0 <= C23_Alpha(skin_mask[x], arg.magnitude)
                    /\ C23_Alpha(skin_mask[x], arg.magnitude) <= 25500
                    /\ skin_mask[x] = 0 => result.image[x] = image[x]
              /\ arg.magnitude = 0 => result.image = image

\* smoothing 0 on an image with skin whose smoothed version differs from it
C23_Witness ==
    /\ op = "enhance_skin_texture"
    /\ arg.magnitude = 0
    /\ ~MaskIsZero(detect_skin_mask(image))
    /\ \E x \in Pos : detect_skin_mask(image)[x] = 0
    /\ \E x \in Pos : detect_skin_mask(image)[x] > 0 /\ bilateralFilter(image)[x] # image[x]
    /\ result.image = image

\* C24: no call of analyze_skin_tone, adjust_lightness, adjust_warmth,
\* adjust_saturation, change_skin_tone, apply_gradual_adjustment or
\* enhance_skin_texture, whether it returns or raises, changes a pixel of the image
\* passed to it.
C24_InputUnchanged == [][image' = image]_vars

\* a call has returned an image that differs from its input
C24_Witness ==
    /\ op = "adjust_warmth"
    /\ result.status = "ok"
    /\ result.image # image

\* the masks of the two detectors of an image and the masks they pass through
C25_Stages(img) ==
    {RawMask(img), MorphOpen(RawMask(img)), MorphClose(MorphOpen(RawMask(img))),
     detect_skin_regions(img), detect_skin_mask(img)}

\* C25: the mask each detector returns for an image, and the mask after the range
\* tests and their AND, after the opening and after the closing, has one value per
\* pixel of the image.
C25_MaskShape ==
    (op = "raw_mask")
        => /\ DOMAIN result.value = DOMAIN arg.image
           /\ \A m \in C25_Stages(arg.image) : DOMAIN m = DOMAIN arg.image

\* an image with skin in one half only: the masks are neither all 0 nor all 255
C25_Witness ==
    /\ op = "raw_mask"
    /\ Len(arg.image) = Width
    /\ Len(detect_skin_regions(arg.image)) = Width
    /\ Len(detect_skin_mask(arg.image)) = Width
    /\ \E x, y \in Pos : detect_skin_regions(arg.image)[x] = 0
                         /\ detect_skin_regions(arg.image)[y] = 255

\* C26: whenever no handler of the application is waiting for an adjustment or an
\* analysis, skin_tone_analysis is absent or is the analysis of current_image; an
\* analysis that fails does not leave the analysis of an earlier image in place.
C26_AnalysisOfCurrentImage ==
    app /= NoApp /\ SuspendedAt("adjust") = {} /\ SuspendedAt("analyze_skin_tone") = {}
        => app.skin_tone_analysis \in {None, AnalysisOf(app.current_image)}

\* the request that was made last
LastRequested == app.tasks[Len(app.tasks)]

\* every handler has returned, the first was the upload of a photo with skin and
\* all later ones are slider changes, at least two of them
AdjustmentsFinished ==
    /\ app /= NoApp
    /\ Len(app.tasks) >= 3
    /\ \A i \in 1 .. Len(app.tasks) : app.tasks[i].pc = "done"
    /\ app.tasks[1].handler = "handle_image_upload"
    /\ app.original_image /= None
    /\ HasSkin(app.original_image)
    /\ \A i \in 2 .. Len(app.tasks) : app.tasks[i].handler = "adjust_skin_tone"

\* C27: once all overlapping adjust_skin_tone tasks have finished, current_image is
\* the result of the adjustment requested last and skin_tone_analysis is the
\* analysis of that image, whatever the order in which the tasks completed.
C27_LastAdjustmentWins ==
    AdjustmentsFinished =>
        /\ app.current_image = AdjustedImage(app.original_image, LastRequested.request.kind,
                                             LastRequested.request.value)
        /\ app.skin_tone_analysis = AnalysisOf(app.current_image)

C29_UndertoneAgreesWithTemperature ==
    op = "undertone_and_temperature"
        => LET undertone == result.value.undertone
               temperature == result.value.temperature
           IN  /\ temperature = "Warm" => undertone = "Warm"
               /\ temperature = "Cool" => undertone = "Cool"
               /\ temperature = "Neutral" => undertone = "Neutral"
               /\ undertone = "Warm" => temperature \in {"Warm", "Neutral-Warm"}
               /\ undertone = "Cool" => temperature \in {"Cool", "Neutral-Cool"}

\* a mean colour whose red exceeds its blue by exactly 25.5 levels, the difference
\* rounding to just above 0.1: both are 'Warm'
C29_Witness ==
    /\ op = "undertone_and_temperature"
    /\ <<arg.avg.sum[1], arg.avg.sum[3]>> \in RoundedWarm
    /\ result.value = [undertone |-> "Warm", temperature |-> "Warm"]

\* the palette key of each category name of the analyzer
C30_PaletteKey(category) ==
    CASE category = "Very Light" -> "very_light"
      [] category = "Light" -> "light"
      [] category = "Dark" -> "dark"
      [] category \in {"Light Medium", "Medium", "Medium Dark"} -> "medium"

\* C30: for each of the six category names and three undertone names of the
\* analyzer the palette is found in the table itself, under the key the category
\* stands for and the lower-case undertone, not by the fallback to medium/neutral;
\* the result has 8 best colors, 7 avoid colors and 3 outfit combinations.
C30_PaletteByLookup ==
    (/\ op = "get_recommendations"
     /\ arg.skin_analysis.category \in CategoryNames
     /\ arg.skin_analysis.undertone \in UndertoneNames)
        => /\ calls[1].found
           /\ calls[1].category = C30_PaletteKey(arg.skin_analysis.category)
           /\ calls[1].undertone =
                  (CASE arg.skin_analysis.undertone = "Warm" -> "warm"
                     [] arg.skin_analysis.undertone = "Cool" -> "cool"
                     [] arg.skin_analysis.undertone = "Neutral" -> "neutral")
           /\ Len(result.value.best_colors) = 8
           /\ Len(result.value.avoid_colors) = 7
           /\ Len(result.value.outfit_combinations) = 3
           /\ \A i \in 1 .. 8 :
                  result.value.best_colors[i].hex =
                      color_palettes[calls[1].category][calls[1].undertone].best[i]

\* the recommendations for 'Light Medium' with a 'Cool' undertone come from the
\* medium/cool palette
C30_Witness ==
    /\ op = "get_recommendations"
    /\ arg.skin_analysis.category = "Light Medium"
    /\ arg.skin_analysis.undertone = "Cool"
    /\ calls[1].found
    /\ result.value.best_colors[1].hex = "#B39DDB"
    /\ result.value.outfit_combinations[3] = <<"#000000", "#B39DDB", "#9575CD", "#FFFFFF">>

====
